---- MODULE Spec2Model ----
(***************************************************************************)
(* HermesCRM: the ownership-scoped repository (server/storage.ts, both     *)
(* MemStorage and DatabaseStorage), the route handlers of server/routes.ts *)
(* and the client-side authorization predicate of hooks/use-auth.tsx.      *)
(*                                                                         *)
(* A text is a sequence of one-character strings, so that toLowerCase,     *)
(* String.includes and SQL ILIKE are computed rather than assumed.  A      *)
(* nullable column is <<>> (null) or <<t>> (the text t).                   *)
(***************************************************************************)
EXTENDS Integers, Sequences, FiniteSets, TLC

(***************************************************************************)
(* Bounds of the model.                                                    *)
(***************************************************************************)
\* Accounts and rows per child table in the runs of the repository calls.
StoreUsers == 2
StoreRows == 2
\* Accounts, and child rows over the three tables, in the runs of the account
\* administration.
AdminUsers == 3
AdminRows == 2
\* Accounts and rows per child table in the runs of the route handlers.
RouteUsers == 2
RouteRows == 1
\* Ticks of the clock; one tick is one hour.
MaxTime == 2
\* Accounts, reset tokens issued and reset requests in flight in the runs of the
\* password-reset flow.
ResetUsers == 2
MaxTokens == 1
MaxPending == 1
\* Accounts and reset tokens issued in the runs that issue a token twice.
TokenUsers == 1
TokenCount == 2
\* Accounts and email configurations in the runs with overlapping calls.
\* Accounts in the runs of the client.
ClientUsers == 1
ConfigUsers == 2
ConfigRows == 2
\* Accounts and rows created in the runs where accounts are deleted while rows
\* are created.
OrphanUsers == 1
OrphanRows == 2
AccountUsers == 2
\* Accounts and child rows in the runs of account deletion with failures.
DeleteUsers == 2
DeleteRows == 2
\* Accounts and clients in the runs of the client search.
SearchUsers == 2
SearchRows == 2

VARIABLES
  impl,                 \* which IStorage implementation `storage` is: "mem" | "db"
  users,                \* MemStorage.users / table users:  id -> User
  clients,              \* MemStorage.clients / table clients: id -> Client
  campaigns,            \* MemStorage.campaigns / table campaigns: id -> Campaign
  emailConfigurations,  \* MemStorage.emailConfigurations / table email_configurations
  nextUserId,           \* MemStorage.nextUserId / serial users.id
  nextClientId,         \* MemStorage.nextClientId / serial clients.id
  nextCampaignId,       \* MemStorage.nextCampaignId / serial campaigns.id
  nextEmailConfigId,    \* MemStorage.nextEmailConfigId / serial email_configurations.id
  now,                  \* the wall clock read by new Date() / defaultNow()
  user,                 \* AuthProvider's `user` state: <<>> (null) or <<User>>
  isLoading,            \* AuthProvider's `isLoading` state
  location,             \* the path wouter's useLocation() holds
  nextToken,            \* the next value randomBytes(32) hands out
  pending,              \* POST /api/reset-password requests suspended at an await
  resets,               \* the tokens a reset wrote a password for / answered 200 for
  last                  \* the last call and what it returned

vars == <<impl, users, clients, campaigns, emailConfigurations, nextUserId,
          nextClientId, nextCampaignId, nextEmailConfigId, now, user, isLoading,
          location, nextToken, pending, resets, last>>

(***************************************************************************)
(* Texts.                                                                  *)
(***************************************************************************)
\* String.prototype.toLowerCase on one character of the model's alphabet.
LowerChar(c) ==
  CASE c = "A" -> "a"
    [] c = "B" -> "b"
    [] OTHER -> c

toLowerCase(t) == [i \in 1..Len(t) |-> LowerChar(t[i])]

\* String.prototype.includes: t occurs in s as a contiguous substring.
includes(s, t) ==
  \E i \in 0..(Len(s) - Len(t)) : SubSeq(s, i + 1, i + Len(t)) = t

\* SQL LIKE: "%" matches any run of characters, "_" exactly one character.
RECURSIVE LikeMatch(_, _)
LikeMatch(p, s) ==
  IF p = <<>> THEN s = <<>>
  ELSE IF Head(p) = "%"
    THEN \E k \in 0..Len(s) : LikeMatch(Tail(p), SubSeq(s, k + 1, Len(s)))
  ELSE IF s = <<>> THEN FALSE
  ELSE IF Head(p) = "_" THEN LikeMatch(Tail(p), Tail(s))
  ELSE Head(p) = Head(s) /\ LikeMatch(Tail(p), Tail(s))

\* drizzle's ilike(column, `%${search}%`) on a nullable column: NULL ILIKE p is
\* NULL, which a WHERE clause treats as not true.
ilike(col, search) ==
  /\ col # <<>>
  /\ LikeMatch(<<"%">> \o toLowerCase(search) \o <<"%">>, toLowerCase(col[1]))

(***************************************************************************)
(* The store as one value, so that a method that calls another method can  *)
(* be written as the composition the code performs.                        *)
(***************************************************************************)
Store ==
  [users |-> users, clients |-> clients, campaigns |-> campaigns,
   emailConfigurations |-> emailConfigurations,
   nextUserId |-> nextUserId, nextClientId |-> nextClientId,
   nextCampaignId |-> nextCampaignId, nextEmailConfigId |-> nextEmailConfigId]

\* Map.delete / DELETE ... WHERE id = k
Without(tbl, ks) == [k \in (DOMAIN tbl) \ ks |-> tbl[k]]

\* Map.set(k, v) / INSERT
With(tbl, k, v) == [x \in (DOMAIN tbl) \cup {k} |-> IF x = k THEN v ELSE tbl[x]]

\* { ...row, ...data }: the fields data carries replace the row's.
Spread(row, data) ==
  [f \in DOMAIN row |-> IF f \in DOMAIN data THEN data[f] ELSE row[f]]

\* The ids of a table in ascending order: the iteration order of a Map whose keys
\* were inserted with an increasing counter.
RECURSIVE Ascending(_)
Ascending(S) ==
  IF S = {} THEN <<>>
  ELSE LET m == CHOOSE x \in S : \A y \in S : x <= y
       IN <<m>> \o Ascending(S \ {m})

\* The value of an absent result: undefined / null.
NotFound == <<>>

\* What a storage method hands back: the store after the call, the row(s) it
\* resolves to (NotFound for undefined / null), its boolean or numeric result, and
\* whether the promise rejected instead (a statement the database refused).
Ret(s, rows, ok, count) == [s |-> s, rows |-> rows, ok |-> ok, count |-> count, threw |-> FALSE]
Threw(s) == [s |-> s, rows |-> NotFound, ok |-> FALSE, count |-> 0, threw |-> TRUE]

\* Rows of a table that carry user_id = uid.
OwnedBy(tbl, uid) == {k \in DOMAIN tbl : tbl[k].userId = uid}

\* Array.prototype.sort((a, b) => b.createdAt - a.createdAt) over rows listed in
\* Map order: the sort is stable, so rows of one instant keep ascending id order.
RECURSIVE SortByCreatedAtDesc(_, _)
SortByCreatedAtDesc(tbl, ks) ==
  IF ks = {} THEN <<>>
  ELSE LET k == CHOOSE x \in ks : \A y \in ks :
                  \/ tbl[x].createdAt > tbl[y].createdAt
                  \/ tbl[x].createdAt = tbl[y].createdAt /\ x <= y
       IN <<tbl[k]>> \o SortByCreatedAtDesc(tbl, ks \ {k})

\* ORDER BY created_at DESC: every order of the rows that is descending in
\* created_at; rows of one instant come in whatever order the database picks.
RECURSIVE OrderByCreatedAtDesc(_, _)
OrderByCreatedAtDesc(tbl, ks) ==
  IF ks = {} THEN {<<>>}
  ELSE LET top == {x \in ks : \A y \in ks : tbl[x].createdAt >= tbl[y].createdAt}
       IN UNION {{<<tbl[k]>> \o rest : rest \in OrderByCreatedAtDesc(tbl, ks \ {k})} : k \in top}

(***************************************************************************)
(* Accounts.                                                               *)
(***************************************************************************)
\* A createUser whose fixed fields come before the spread of userData, so that
\* userData overrides them.
CreateUserSpreadLast(s, userData) ==
  LET given(f, fixed) == IF f \in DOMAIN userData THEN userData[f] ELSE fixed
      newUser == [id |-> s.nextUserId,
                  username |-> userData.username,
                  email |-> userData.email,
                  password |-> userData.password,
                  role |-> given("role", "user"),
                  status |-> given("status", "active"),
                  canAccessMaladireta |-> given("canAccessMaladireta", TRUE),
                  canAccessEmailConfig |-> given("canAccessEmailConfig", TRUE),
                  resetToken |-> <<>>,
                  resetTokenExpiry |-> <<>>]
  IN Ret([s EXCEPT !.users = With(s.users, newUser.id, newUser),
                   !.nextUserId = s.nextUserId + 1],
         <<newUser>>, TRUE, 0)

\* MemStorage.createUser: the fixed fields come after the spread of userData.
MemCreateUser(s, userData) ==
  LET newUser == [id |-> s.nextUserId,
                  username |-> userData.username,
                  email |-> userData.email,
                  password |-> userData.password,
                  role |-> "user",
                  status |-> "active",
                  canAccessMaladireta |-> TRUE,
                  canAccessEmailConfig |-> TRUE,
                  resetToken |-> <<>>,
                  resetTokenExpiry |-> <<>>]
  IN Ret([s EXCEPT !.users = With(s.users, newUser.id, newUser),
                   !.nextUserId = s.nextUserId + 1],
         <<newUser>>, TRUE, 0)

\* MemStorage.createUserByAdmin: every field of userData is stored as given.
MemCreateUserByAdmin(s, userData) ==
  LET newUser == [id |-> s.nextUserId,
                  username |-> userData.username,
                  email |-> userData.email,
                  password |-> userData.password,
                  role |-> userData.role,
                  status |-> userData.status,
                  canAccessMaladireta |-> userData.canAccessMaladireta,
                  canAccessEmailConfig |-> userData.canAccessEmailConfig,
                  resetToken |-> <<>>,
                  resetTokenExpiry |-> <<>>]
  IN Ret([s EXCEPT !.users = With(s.users, newUser.id, newUser),
                   !.nextUserId = s.nextUserId + 1],
         <<newUser>>, TRUE, 0)

\* MemStorage.updateUserByAdmin
MemUpdateUserByAdmin(s, id, userData) ==
  IF id \notin DOMAIN s.users THEN Ret(s, NotFound, FALSE, 0)
  ELSE LET updatedUser == Spread(s.users[id], userData)
       IN Ret([s EXCEPT !.users = With(s.users, id, updatedUser)], <<updatedUser>>, TRUE, 0)

\* A deleteUserById without the loop over the campaigns.
DeleteUserByIdKeepsCampaigns(s, id) ==
  Ret([s EXCEPT !.clients = Without(s.clients, OwnedBy(s.clients, id)),
                !.emailConfigurations =
                    Without(s.emailConfigurations, OwnedBy(s.emailConfigurations, id)),
                !.users = Without(s.users, {id})],
      NotFound, id \in DOMAIN s.users, 0)

\* MemStorage.deleteUserById: the three loops, then users.delete(id).
MemDeleteUserById(s, id) ==
  Ret([s EXCEPT !.clients = Without(s.clients, OwnedBy(s.clients, id)),
                !.campaigns = Without(s.campaigns, OwnedBy(s.campaigns, id)),
                !.emailConfigurations =
                    Without(s.emailConfigurations, OwnedBy(s.emailConfigurations, id)),
                !.users = Without(s.users, {id})],
      NotFound, id \in DOMAIN s.users, 0)

\* The for loop of MemStorage.deleteAllUsersExceptAdmin over usersToDelete.
RECURSIVE MemDeleteEach(_, _)
MemDeleteEach(s, usersToDelete) ==
  IF usersToDelete = <<>> THEN s
  ELSE MemDeleteEach(MemDeleteUserById(s, Head(usersToDelete)).s, Tail(usersToDelete))

\* A deleteAllUsersExceptAdmin whose filter lets adminId through.
DeleteAllUsersIncludingAdmin(s, adminId) ==
  LET usersToDelete == Ascending(DOMAIN s.users)
  IN Ret(MemDeleteEach(s, usersToDelete), NotFound, TRUE, Len(usersToDelete))

\* MemStorage.deleteAllUsersExceptAdmin
MemDeleteAllUsersExceptAdmin(s, adminId) ==
  LET usersToDelete == Ascending((DOMAIN s.users) \ {adminId})
  IN Ret(MemDeleteEach(s, usersToDelete), NotFound, TRUE, Len(usersToDelete))

\* Column defaults of table users for the columns an insert leaves out.
UsersColumnDefault ==
  [role |-> "user", status |-> "active",
   canAccessMaladireta |-> TRUE, canAccessEmailConfig |-> TRUE]

\* users.username and users.email are declared .unique().
UsersUniqueViolation(tbl, id, row) ==
  \E k \in (DOMAIN tbl) \ {id} :
     tbl[k].username = row.username \/ tbl[k].email = row.email

\* A database that does not check user_id against users.
NoForeignKey(s, uid) == FALSE

\* user_id ... references(() => users.id): a child row may name existing users only.
ForeignKeyViolation(s, uid) == uid \notin DOMAIN s.users

\* No ON DELETE action is declared, so deleting a user some child row still names
\* is refused by the database.
StillReferenced(s, uids) ==
  \E uid \in uids :
     \/ OwnedBy(s.clients, uid) # {}
     \/ OwnedBy(s.campaigns, uid) # {}
     \/ OwnedBy(s.emailConfigurations, uid) # {}

\* DatabaseStorage.createUser: insert(users).values(userData).returning(). The
\* serial is drawn before the constraints are checked.
DbCreateUser(s, userData) ==
  LET newUser == [id |-> s.nextUserId,
                  username |-> userData.username,
                  email |-> userData.email,
                  password |-> userData.password,
                  role |-> UsersColumnDefault.role,
                  status |-> UsersColumnDefault.status,
                  canAccessMaladireta |-> UsersColumnDefault.canAccessMaladireta,
                  canAccessEmailConfig |-> UsersColumnDefault.canAccessEmailConfig,
                  resetToken |-> <<>>,
                  resetTokenExpiry |-> <<>>]
      drawn == [s EXCEPT !.nextUserId = s.nextUserId + 1]
  IN IF UsersUniqueViolation(s.users, newUser.id, newUser) THEN Threw(drawn)
     ELSE Ret([drawn EXCEPT !.users = With(s.users, newUser.id, newUser)],
              <<newUser>>, TRUE, 0)

\* DatabaseStorage.createUserByAdmin
DbCreateUserByAdmin(s, userData) ==
  LET newUser == [id |-> s.nextUserId,
                  username |-> userData.username,
                  email |-> userData.email,
                  password |-> userData.password,
                  role |-> userData.role,
                  status |-> userData.status,
                  canAccessMaladireta |-> userData.canAccessMaladireta,
                  canAccessEmailConfig |-> userData.canAccessEmailConfig,
                  resetToken |-> <<>>,
                  resetTokenExpiry |-> <<>>]
      drawn == [s EXCEPT !.nextUserId = s.nextUserId + 1]
  IN IF UsersUniqueViolation(s.users, newUser.id, newUser) THEN Threw(drawn)
     ELSE Ret([drawn EXCEPT !.users = With(s.users, newUser.id, newUser)],
              <<newUser>>, TRUE, 0)

\* DatabaseStorage.updateUserByAdmin
DbUpdateUserByAdmin(s, id, userData) ==
  IF id \notin DOMAIN s.users THEN Ret(s, NotFound, FALSE, 0)
  ELSE LET updatedUser == Spread(s.users[id], userData)
       IN IF UsersUniqueViolation(s.users, id, updatedUser) THEN Threw(s)
          ELSE Ret([s EXCEPT !.users = With(s.users, id, updatedUser)],
                   <<updatedUser>>, TRUE, 0)

\* DatabaseStorage.deleteUserById: three deletes by user_id, then the user; the
\* result is rowCount !== null && rowCount > 0 of the last statement.
DbDeleteUserById(s, id) ==
  LET s3 == [s EXCEPT !.clients = Without(s.clients, OwnedBy(s.clients, id)),
                      !.campaigns = Without(s.campaigns, OwnedBy(s.campaigns, id)),
                      !.emailConfigurations =
                          Without(s.emailConfigurations, OwnedBy(s.emailConfigurations, id))]
  IN IF id \in DOMAIN s3.users /\ StillReferenced(s3, {id}) THEN Threw(s3)
     ELSE Ret([s3 EXCEPT !.users = Without(s.users, {id})],
              NotFound, id \in DOMAIN s.users, 0)

\* DatabaseStorage.deleteUserById when the database rejects its failAt-th
\* statement (connection lost, statement timeout): the four statements are
\* awaited one by one outside a transaction, so those before it stay applied.
DbDeleteUserByIdRejected(s, id, failAt) ==
  LET s1 == [s EXCEPT !.clients = Without(s.clients, OwnedBy(s.clients, id))]
      s2 == [s1 EXCEPT !.campaigns = Without(s.campaigns, OwnedBy(s.campaigns, id))]
      s3 == [s2 EXCEPT !.emailConfigurations =
                           Without(s.emailConfigurations, OwnedBy(s.emailConfigurations, id))]
  IN Threw(<<s, s1, s2, s3>>[failAt])

\* The where condition of the three cascade deletes of
\* DatabaseStorage.deleteAllUsersExceptAdmin:
\*   eq(t.userId, userIds[0]) || (userIds.length > 1 ? or(...) : undefined)
\* eq(...) builds an SQL object, which is truthy, so a || b is its left operand:
\* the statement matches the rows of userIds[0] and of no other user.
CascadeCondition(userIds) == {Head(userIds)}

\* DatabaseStorage.deleteAllUsersExceptAdmin; userIds is the order in which the
\* SELECT (which has no ORDER BY) returned the users to delete.
DbDeleteAllUsersExceptAdmin(s, adminId, userIds) ==
  IF userIds = <<>> THEN Ret(s, NotFound, TRUE, 0)
  ELSE
    LET matched == CascadeCondition(userIds)
        Gone(tbl) == {k \in DOMAIN tbl : tbl[k].userId \in matched}
        s3 == [s EXCEPT !.clients = Without(s.clients, Gone(s.clients)),
                        !.campaigns = Without(s.campaigns, Gone(s.campaigns)),
                        !.emailConfigurations =
                            Without(s.emailConfigurations, Gone(s.emailConfigurations))]
        removed == (DOMAIN s.users) \ {adminId}
    IN IF StillReferenced(s3, removed) THEN Threw(s3)
       ELSE Ret([s3 EXCEPT !.users = Without(s.users, removed)],
                NotFound, TRUE, Cardinality(removed))

\* Every order in which an unordered SELECT may return the ids S.
RECURSIVE Orderings(_)
Orderings(S) ==
  IF S = {} THEN {<<>>}
  ELSE UNION {{<<x>> \o rest : rest \in Orderings(S \ {x})} : x \in S}

\* MemStorage.updateUser
MemUpdateUser(s, id, updates) ==
  IF id \notin DOMAIN s.users THEN Ret(s, NotFound, FALSE, 0)
  ELSE LET updatedUser == Spread(s.users[id], updates)
       IN Ret([s EXCEPT !.users = With(s.users, id, updatedUser)], <<updatedUser>>, TRUE, 0)

\* DatabaseStorage.updateUser: update(users).set(updates).where(id).returning()
DbUpdateUser(s, id, updates) ==
  IF id \notin DOMAIN s.users THEN Ret(s, NotFound, FALSE, 0)
  ELSE LET updatedUser == Spread(s.users[id], updates)
       IN IF UsersUniqueViolation(s.users, id, updatedUser) THEN Threw(s)
          ELSE Ret([s EXCEPT !.users = With(s.users, id, updatedUser)],
                   <<updatedUser>>, TRUE, 0)

\* for (const row of Array.from(map.values())) if (test(row)) return row: the
\* first of the rows hit in the order of the map; NotFound if none.
FirstOf(tbl, hit) ==
  IF hit = {} THEN NotFound ELSE <<tbl[Head(Ascending(hit))]>>

\* MemStorage.getUserByEmail: the first user of the map with that email.
MemGetUserByEmail(s, email) ==
  FirstOf(s.users, {k \in DOMAIN s.users : s.users[k].email = email})

\* DatabaseStorage.getUserByEmail: the first row of an unordered SELECT; the set
\* of the results it may give.
DbGetUserByEmail(s, email) ==
  LET hit == {k \in DOMAIN s.users : s.users[k].email = email}
  IN IF hit = {} THEN {NotFound} ELSE {<<s.users[k]>> : k \in hit}

\* A setPasswordResetToken that leaves a token the account already stores.
SetPasswordResetTokenKeepsFirst(s, userId, token, expiry) ==
  IF userId \notin DOMAIN s.users THEN Ret(s, NotFound, FALSE, 0)
  ELSE LET updatedUser ==
             IF s.users[userId].resetToken # <<>> THEN s.users[userId]
             ELSE [s.users[userId] EXCEPT !.resetToken = <<token>>,
                                          !.resetTokenExpiry = <<expiry>>]
       IN Ret([s EXCEPT !.users = With(s.users, userId, updatedUser)],
              <<updatedUser>>, TRUE, 0)

\* MemStorage.setPasswordResetToken
MemSetPasswordResetToken(s, userId, token, expiry) ==
  IF userId \notin DOMAIN s.users THEN Ret(s, NotFound, FALSE, 0)
  ELSE LET updatedUser ==
             [s.users[userId] EXCEPT !.resetToken = <<token>>, !.resetTokenExpiry = <<expiry>>]
       IN Ret([s EXCEPT !.users = With(s.users, userId, updatedUser)],
              <<updatedUser>>, TRUE, 0)

\* DatabaseStorage.setPasswordResetToken
DbSetPasswordResetToken(s, userId, token, expiry) ==
  IF userId \notin DOMAIN s.users THEN Ret(s, NotFound, FALSE, 0)
  ELSE LET updatedUser ==
             [s.users[userId] EXCEPT !.resetToken = <<token>>, !.resetTokenExpiry = <<expiry>>]
       IN Ret([s EXCEPT !.users = With(s.users, userId, updatedUser)],
              <<updatedUser>>, TRUE, 0)

\* MemStorage.getUserByResetToken: the first user of the map with that token.
MemGetUserByResetToken(s, token) ==
  FirstOf(s.users, {k \in DOMAIN s.users : s.users[k].resetToken = <<token>>})

\* DatabaseStorage.getUserByResetToken: the set of the results it may give.
DbGetUserByResetToken(s, token) ==
  LET hit == {k \in DOMAIN s.users : s.users[k].resetToken = <<token>>}
  IN IF hit = {} THEN {NotFound} ELSE {<<s.users[k]>> : k \in hit}

\* A clearPasswordResetToken that leaves the token and clears its expiry.
ClearPasswordResetTokenKeepsToken(s, userId) ==
  IF userId \notin DOMAIN s.users THEN Ret(s, NotFound, FALSE, 0)
  ELSE LET updatedUser == [s.users[userId] EXCEPT !.resetTokenExpiry = <<>>]
       IN Ret([s EXCEPT !.users = With(s.users, userId, updatedUser)],
              <<updatedUser>>, TRUE, 0)

\* MemStorage.clearPasswordResetToken
MemClearPasswordResetToken(s, userId) ==
  IF userId \notin DOMAIN s.users THEN Ret(s, NotFound, FALSE, 0)
  ELSE LET updatedUser ==
             [s.users[userId] EXCEPT !.resetToken = <<>>, !.resetTokenExpiry = <<>>]
       IN Ret([s EXCEPT !.users = With(s.users, userId, updatedUser)],
              <<updatedUser>>, TRUE, 0)

\* DatabaseStorage.clearPasswordResetToken
DbClearPasswordResetToken(s, userId) ==
  IF userId \notin DOMAIN s.users THEN Ret(s, NotFound, FALSE, 0)
  ELSE LET updatedUser ==
             [s.users[userId] EXCEPT !.resetToken = <<>>, !.resetTokenExpiry = <<>>]
       IN Ret([s EXCEPT !.users = With(s.users, userId, updatedUser)],
              <<updatedUser>>, TRUE, 0)

\* data.f ?? dflt, and the column default of an insert that leaves f out.
Field(data, f, dflt) == IF f \in DOMAIN data THEN data[f] ELSE dflt

(***************************************************************************)
(* Clients.  A row keeps the columns the storage methods read: the owner,  *)
(* the seven searchable columns and created_at.                            *)
(***************************************************************************)
NewClient(id, clientData) ==
  [id |-> id,
   userId |-> clientData.userId,
   name |-> clientData.name,
   email |-> clientData.email,
   cpfCnpj |-> Field(clientData, "cpfCnpj", <<>>),
   mobilePhone |-> Field(clientData, "mobilePhone", <<>>),
   landlinePhone |-> Field(clientData, "landlinePhone", <<>>),
   city |-> Field(clientData, "city", <<>>),
   businessArea |-> Field(clientData, "businessArea", <<>>),
   createdAt |-> now]

\* The filter predicate of MemStorage.getClients; the two phone columns are
\* compared without toLowerCase().
MemSearchMatches(client, search) ==
  LET searchTerm == toLowerCase(search)
  IN \/ includes(toLowerCase(client.name), searchTerm)
     \/ includes(toLowerCase(client.email), searchTerm)
     \/ (client.cpfCnpj # <<>> /\ includes(toLowerCase(client.cpfCnpj[1]), searchTerm))
     \/ (client.mobilePhone # <<>> /\ includes(client.mobilePhone[1], searchTerm))
     \/ (client.landlinePhone # <<>> /\ includes(client.landlinePhone[1], searchTerm))
     \/ (client.city # <<>> /\ includes(toLowerCase(client.city[1]), searchTerm))
     \/ (client.businessArea # <<>> /\ includes(toLowerCase(client.businessArea[1]), searchTerm))

\* A getClients whose search branch filters all clients, not the user's.
GetClientsSearchAllOwners(s, userId, search) ==
  LET userClients == {k \in DOMAIN s.clients : s.clients[k].userId = userId}
      kept == IF search # <<>>
              THEN {k \in DOMAIN s.clients : MemSearchMatches(s.clients[k], search)}
              ELSE userClients
  IN SortByCreatedAtDesc(s.clients, kept)

\* MemStorage.getClients; an absent search and "" are both falsy.
MemGetClients(s, userId, search) ==
  LET userClients == {k \in DOMAIN s.clients : s.clients[k].userId = userId}
      kept == IF search # <<>>
              THEN {k \in userClients : MemSearchMatches(s.clients[k], search)}
              ELSE userClients
  IN SortByCreatedAtDesc(s.clients, kept)

\* The searchConditions of DatabaseStorage.getClients.
DbSearchMatches(client, search) ==
  \/ ilike(<<client.name>>, search)
  \/ ilike(<<client.email>>, search)
  \/ ilike(client.cpfCnpj, search)
  \/ ilike(client.mobilePhone, search)
  \/ ilike(client.landlinePhone, search)
  \/ ilike(client.city, search)
  \/ ilike(client.businessArea, search)

\* DatabaseStorage.getClients: the lists the query may return.
DbGetClients(s, userId, search) ==
  LET kept == {k \in DOMAIN s.clients :
                 /\ s.clients[k].userId = userId
                 /\ (search # <<>> => DbSearchMatches(s.clients[k], search))}
  IN OrderByCreatedAtDesc(s.clients, kept)

\* MemStorage.getClient
MemGetClient(s, id, userId) ==
  IF id \in DOMAIN s.clients /\ s.clients[id].userId = userId
  THEN <<s.clients[id]>> ELSE NotFound

\* DatabaseStorage.getClient
DbGetClient(s, id, userId) ==
  LET found == {k \in DOMAIN s.clients : k = id /\ s.clients[k].userId = userId}
  IN IF found = {} THEN NotFound ELSE <<s.clients[id]>>

\* MemStorage.createClient
MemCreateClient(s, clientData) ==
  LET client == NewClient(s.nextClientId, clientData)
  IN Ret([s EXCEPT !.clients = With(s.clients, client.id, client),
                   !.nextClientId = s.nextClientId + 1],
         <<client>>, TRUE, 0)

\* DatabaseStorage.createClient
DbCreateClient(s, clientData) ==
  LET newClient == NewClient(s.nextClientId, clientData)
      drawn == [s EXCEPT !.nextClientId = s.nextClientId + 1]
  IN IF ForeignKeyViolation(s, clientData.userId) THEN Threw(drawn)
     ELSE Ret([drawn EXCEPT !.clients = With(s.clients, newClient.id, newClient)],
              <<newClient>>, TRUE, 0)

\* An updateClient that looks the row up by id alone.
UpdateClientAnyOwner(s, id, userId, clientData) ==
  IF id \notin DOMAIN s.clients THEN Ret(s, NotFound, FALSE, 0)
  ELSE LET updatedClient == Spread(s.clients[id], clientData)
       IN Ret([s EXCEPT !.clients = With(s.clients, id, updatedClient)],
              <<updatedClient>>, TRUE, 0)

\* MemStorage.updateClient
MemUpdateClient(s, id, userId, clientData) ==
  IF id \notin DOMAIN s.clients \/ s.clients[id].userId # userId
  THEN Ret(s, NotFound, FALSE, 0)
  ELSE LET updatedClient == Spread(s.clients[id], clientData)
       IN Ret([s EXCEPT !.clients = With(s.clients, id, updatedClient)],
              <<updatedClient>>, TRUE, 0)

\* DatabaseStorage.updateClient
DbUpdateClient(s, id, userId, clientData) ==
  LET hit == {k \in DOMAIN s.clients : k = id /\ s.clients[k].userId = userId}
  IN IF hit = {} THEN Ret(s, NotFound, FALSE, 0)
     ELSE LET updatedClient == Spread(s.clients[id], clientData)
          IN Ret([s EXCEPT !.clients = With(s.clients, id, updatedClient)],
                 <<updatedClient>>, TRUE, 0)

\* MemStorage.deleteClient
MemDeleteClient(s, id, userId) ==
  IF id \notin DOMAIN s.clients \/ s.clients[id].userId # userId
  THEN Ret(s, NotFound, FALSE, 0)
  ELSE Ret([s EXCEPT !.clients = Without(s.clients, {id})], NotFound, TRUE, 0)

\* DatabaseStorage.deleteClient
DbDeleteClient(s, id, userId) ==
  LET hit == {k \in DOMAIN s.clients : k = id /\ s.clients[k].userId = userId}
  IN Ret([s EXCEPT !.clients = Without(s.clients, hit)], NotFound, Cardinality(hit) > 0, 0)

(***************************************************************************)
(* Campaigns.                                                              *)
(***************************************************************************)
NewCampaign(id, campaignData) ==
  [id |-> id,
   userId |-> campaignData.userId,
   name |-> campaignData.name,
   type |-> campaignData.type,
   subject |-> Field(campaignData, "subject", <<>>),
   message |-> campaignData.message,
   createdAt |-> now]

\* MemStorage.getCampaigns
MemGetCampaigns(s, userId) ==
  SortByCreatedAtDesc(s.campaigns,
                      {k \in DOMAIN s.campaigns : s.campaigns[k].userId = userId})

\* DatabaseStorage.getCampaigns: the lists the query may return.
DbGetCampaigns(s, userId) ==
  OrderByCreatedAtDesc(s.campaigns,
                       {k \in DOMAIN s.campaigns : s.campaigns[k].userId = userId})

\* MemStorage.getCampaign
MemGetCampaign(s, id, userId) ==
  IF id \in DOMAIN s.campaigns /\ s.campaigns[id].userId = userId
  THEN <<s.campaigns[id]>> ELSE NotFound

\* DatabaseStorage.getCampaign
DbGetCampaign(s, id, userId) ==
  LET found == {k \in DOMAIN s.campaigns : k = id /\ s.campaigns[k].userId = userId}
  IN IF found = {} THEN NotFound ELSE <<s.campaigns[id]>>

\* MemStorage.createCampaign
MemCreateCampaign(s, campaignData) ==
  LET campaign == NewCampaign(s.nextCampaignId, campaignData)
  IN Ret([s EXCEPT !.campaigns = With(s.campaigns, campaign.id, campaign),
                   !.nextCampaignId = s.nextCampaignId + 1],
         <<campaign>>, TRUE, 0)

\* DatabaseStorage.createCampaign
DbCreateCampaign(s, campaignData) ==
  LET newCampaign == NewCampaign(s.nextCampaignId, campaignData)
      drawn == [s EXCEPT !.nextCampaignId = s.nextCampaignId + 1]
  IN IF ForeignKeyViolation(s, campaignData.userId) THEN Threw(drawn)
     ELSE Ret([drawn EXCEPT !.campaigns = With(s.campaigns, newCampaign.id, newCampaign)],
              <<newCampaign>>, TRUE, 0)

\* MemStorage.updateCampaign
MemUpdateCampaign(s, id, userId, campaignData) ==
  IF id \notin DOMAIN s.campaigns \/ s.campaigns[id].userId # userId
  THEN Ret(s, NotFound, FALSE, 0)
  ELSE LET updatedCampaign == Spread(s.campaigns[id], campaignData)
       IN Ret([s EXCEPT !.campaigns = With(s.campaigns, id, updatedCampaign)],
              <<updatedCampaign>>, TRUE, 0)

\* DatabaseStorage.updateCampaign
DbUpdateCampaign(s, id, userId, campaignData) ==
  LET hit == {k \in DOMAIN s.campaigns : k = id /\ s.campaigns[k].userId = userId}
  IN IF hit = {} THEN Ret(s, NotFound, FALSE, 0)
     ELSE LET updatedCampaign == Spread(s.campaigns[id], campaignData)
          IN Ret([s EXCEPT !.campaigns = With(s.campaigns, id, updatedCampaign)],
                 <<updatedCampaign>>, TRUE, 0)

\* A deleteCampaign that looks the row up by id alone.
DeleteCampaignAnyOwner(s, id, userId) ==
  IF id \notin DOMAIN s.campaigns
  THEN Ret(s, NotFound, FALSE, 0)
  ELSE Ret([s EXCEPT !.campaigns = Without(s.campaigns, {id})], NotFound, TRUE, 0)

\* MemStorage.deleteCampaign
MemDeleteCampaign(s, id, userId) ==
  IF id \notin DOMAIN s.campaigns \/ s.campaigns[id].userId # userId
  THEN Ret(s, NotFound, FALSE, 0)
  ELSE Ret([s EXCEPT !.campaigns = Without(s.campaigns, {id})], NotFound, TRUE, 0)

\* DatabaseStorage.deleteCampaign
DbDeleteCampaign(s, id, userId) ==
  LET hit == {k \in DOMAIN s.campaigns : k = id /\ s.campaigns[k].userId = userId}
  IN Ret([s EXCEPT !.campaigns = Without(s.campaigns, hit)], NotFound, Cardinality(hit) > 0, 0)

(***************************************************************************)
(* Email configurations.  smtpHost stands for the SMTP columns, which the  *)
(* storage methods carry and never read.                                   *)
(***************************************************************************)
\* The rows of a user that carry is_active = true.
ActiveConfigs(tbl, userId) ==
  {k \in DOMAIN tbl : tbl[k].userId = userId /\ tbl[k].isActive}

\* The first loop of MemStorage.createEmailConfiguration, and the UPDATE ... SET
\* is_active = false WHERE user_id = userId of DatabaseStorage's.
Deactivate(tbl, userId) ==
  [k \in DOMAIN tbl |->
     IF tbl[k].userId = userId THEN [tbl[k] EXCEPT !.isActive = FALSE] ELSE tbl[k]]

\* MemStorage.getEmailConfiguration: the first active row of the user in Map order.
MemGetEmailConfiguration(s, userId) ==
  LET active == ActiveConfigs(s.emailConfigurations, userId)
  IN IF active = {} THEN NotFound
     ELSE <<s.emailConfigurations[Head(Ascending(active))]>>

\* DatabaseStorage.getEmailConfiguration: the results .limit(1) may give, there
\* being no ORDER BY.
DbGetEmailConfiguration(s, userId) ==
  LET active == ActiveConfigs(s.emailConfigurations, userId)
  IN IF active = {} THEN {NotFound}
     ELSE {<<s.emailConfigurations[k]>> : k \in active}

\* A createEmailConfiguration without the deactivation loop.
CreateEmailConfigurationKeepsActive(s, configData) ==
  LET config == [id |-> s.nextEmailConfigId,
                 userId |-> configData.userId,
                 smtpHost |-> configData.smtpHost,
                 isActive |-> TRUE]
  IN Ret([s EXCEPT !.emailConfigurations = With(s.emailConfigurations, config.id, config),
                   !.nextEmailConfigId = s.nextEmailConfigId + 1],
         <<config>>, TRUE, 0)

\* MemStorage.createEmailConfiguration: isActive: true comes after the spread.
MemCreateEmailConfiguration(s, configData) ==
  LET config == [id |-> s.nextEmailConfigId,
                 userId |-> configData.userId,
                 smtpHost |-> configData.smtpHost,
                 isActive |-> TRUE]
      deactivated == Deactivate(s.emailConfigurations, configData.userId)
  IN Ret([s EXCEPT !.emailConfigurations = With(deactivated, config.id, config),
                   !.nextEmailConfigId = s.nextEmailConfigId + 1],
         <<config>>, TRUE, 0)

\* DatabaseStorage.createEmailConfiguration: the UPDATE, then
\* insert(emailConfigurations).values(config); is_active defaults to true.
DbCreateEmailConfiguration(s, configData) ==
  LET config == [id |-> s.nextEmailConfigId,
                 userId |-> configData.userId,
                 smtpHost |-> configData.smtpHost,
                 isActive |-> Field(configData, "isActive", TRUE)]
      deactivated == [s EXCEPT !.emailConfigurations =
                                   Deactivate(s.emailConfigurations, configData.userId),
                               !.nextEmailConfigId = s.nextEmailConfigId + 1]
  IN IF ForeignKeyViolation(s, configData.userId) THEN Threw(deactivated)
     ELSE Ret([deactivated EXCEPT !.emailConfigurations =
                                      With(deactivated.emailConfigurations, config.id, config)],
              <<config>>, TRUE, 0)

\* The first statement of DatabaseStorage.createEmailConfiguration: the UPDATE.
DbDeactivateEmailConfigurations(s, userId) ==
  Ret([s EXCEPT !.emailConfigurations = Deactivate(s.emailConfigurations, userId)],
      NotFound, TRUE, 0)

\* Its second statement: insert(emailConfigurations).values(config).returning().
DbInsertEmailConfiguration(s, configData) ==
  LET config == [id |-> s.nextEmailConfigId,
                 userId |-> configData.userId,
                 smtpHost |-> configData.smtpHost,
                 isActive |-> Field(configData, "isActive", TRUE)]
      drawn == [s EXCEPT !.nextEmailConfigId = s.nextEmailConfigId + 1]
  IN IF ForeignKeyViolation(s, configData.userId) THEN Threw(drawn)
     ELSE Ret([drawn EXCEPT !.emailConfigurations =
                                With(s.emailConfigurations, config.id, config)],
              <<config>>, TRUE, 0)

\* MemStorage.updateEmailConfiguration
MemUpdateEmailConfiguration(s, id, userId, configData) ==
  IF id \notin DOMAIN s.emailConfigurations \/ s.emailConfigurations[id].userId # userId
  THEN Ret(s, NotFound, FALSE, 0)
  ELSE LET updatedConfig == Spread(s.emailConfigurations[id], configData)
       IN Ret([s EXCEPT !.emailConfigurations = With(s.emailConfigurations, id, updatedConfig)],
              <<updatedConfig>>, TRUE, 0)

\* DatabaseStorage.updateEmailConfiguration
DbUpdateEmailConfiguration(s, id, userId, configData) ==
  LET hit == {k \in DOMAIN s.emailConfigurations :
                k = id /\ s.emailConfigurations[k].userId = userId}
  IN IF hit = {} THEN Ret(s, NotFound, FALSE, 0)
     ELSE LET updatedConfig == Spread(s.emailConfigurations[id], configData)
          IN Ret([s EXCEPT !.emailConfigurations =
                               With(s.emailConfigurations, id, updatedConfig)],
                 <<updatedConfig>>, TRUE, 0)

\* MemStorage.deleteEmailConfiguration
MemDeleteEmailConfiguration(s, id, userId) ==
  IF id \notin DOMAIN s.emailConfigurations \/ s.emailConfigurations[id].userId # userId
  THEN Ret(s, NotFound, FALSE, 0)
  ELSE Ret([s EXCEPT !.emailConfigurations = Without(s.emailConfigurations, {id})],
           NotFound, TRUE, 0)

\* DatabaseStorage.deleteEmailConfiguration
DbDeleteEmailConfiguration(s, id, userId) ==
  LET hit == {k \in DOMAIN s.emailConfigurations :
                k = id /\ s.emailConfigurations[k].userId = userId}
  IN Ret([s EXCEPT !.emailConfigurations = Without(s.emailConfigurations, hit)],
         NotFound, Cardinality(hit) > 0, 0)

(***************************************************************************)
(* The authorization predicate of the client (hooks/use-auth.tsx).         *)
(***************************************************************************)
\* A hasPermission that looks at the capability before it looks at the role.
HasPermissionFlagsFirst(u, permission) ==
  IF u = <<>> THEN FALSE
  ELSE CASE permission = "maladireta" -> u[1].canAccessMaladireta = TRUE
         [] permission = "emailConfig" -> u[1].canAccessEmailConfig = TRUE
         [] permission = "userManagement" -> u[1].role = "admin"
         [] OTHER -> FALSE

\* A hasPermission whose switch falls through to the next case.
HasPermissionFallsThrough(u, permission) ==
  IF u = <<>> THEN FALSE
  ELSE IF u[1].role = "admin" THEN TRUE
  ELSE CASE permission = "maladireta" ->
              u[1].canAccessMaladireta = TRUE \/ u[1].canAccessEmailConfig = TRUE
         [] permission = "emailConfig" -> u[1].canAccessEmailConfig = TRUE
         [] permission = "userManagement" -> u[1].role = "admin"
         [] OTHER -> FALSE

\* hasPermission(permission), given the `user` state of AuthProvider.
hasPermission(u, permission) ==
  IF u = <<>> THEN FALSE
  ELSE IF u[1].role = "admin" THEN TRUE
  ELSE CASE permission = "maladireta" -> u[1].canAccessMaladireta = TRUE
         [] permission = "emailConfig" -> u[1].canAccessEmailConfig = TRUE
         [] permission = "userManagement" -> u[1].role = "admin"
         [] OTHER -> FALSE

(***************************************************************************)
(* The inputs the calls are made with.                                     *)
(***************************************************************************)
\* The ids a call may name: the id of every stored row and one that names no row.
UserIds == (DOMAIN users) \cup {nextUserId}
ClientIds == (DOMAIN clients) \cup {nextClientId}
CampaignIds == (DOMAIN campaigns) \cup {nextCampaignId}
EmailConfigIds == (DOMAIN emailConfigurations) \cup {nextEmailConfigId}

\* The registration the n-th account is made with: handles and emails differ.
Digit(n) == <<"1", "2", "3", "4", "5", "6", "7", "8", "9">>[n]

Registration(n) ==
  [username |-> <<"u", Digit(n)>>, email |-> <<"u", Digit(n), "@", "x">>,
   password |-> <<"h", Digit(n)>>]

\* What reaches createUser: a registration, and one that also carries the
\* fields of an inactive administrator without capabilities.
SelfRegistrations(n) ==
  {Registration(n),
   [username |-> Registration(n).username, email |-> Registration(n).email,
    password |-> Registration(n).password, role |-> "admin", status |-> "inactive",
    canAccessMaladireta |-> FALSE, canAccessEmailConfig |-> FALSE]}

\* What an administrator may fill in for role, status and the two flags.
AdminUserData(n) ==
  {[username |-> Registration(n).username, email |-> Registration(n).email,
    password |-> Registration(n).password, role |-> r, status |-> "active",
    canAccessMaladireta |-> m, canAccessEmailConfig |-> e] :
      r \in {"admin", "user"}, m \in BOOLEAN, e \in BOOLEAN}

AdminUserUpdates ==
  {[role |-> "admin"], [role |-> "user"], [canAccessMaladireta |-> FALSE],
   [canAccessEmailConfig |-> FALSE], [status |-> "inactive"],
   [username |-> Registration(1).username], [email |-> Registration(2).email]}

\* The changes of an administrator that touch a handle or the role.
AccountAdminUpdates ==
  {d \in AdminUserUpdates : DOMAIN d \subseteq {"username", "email"} \/ d = [role |-> "admin"]}

\* What updateUser may be given: a password hash, or a handle or an email that
\* an account may already have.
UserUpdates ==
  {[password |-> <<"#", "n">>], [username |-> Registration(2).username],
   [email |-> Registration(1).email]}

\* The n-th account is made with handles of its own or with those of the first.
AccountRegistrations(n) == {Registration(n), Registration(1)}

AccountAdminData(n) ==
  {d \in AdminUserData(n) \cup AdminUserData(1) :
     d.role = "user" /\ d.canAccessMaladireta /\ d.canAccessEmailConfig}

ClientInputs ==
  {[name |-> <<"A", "c">>, email |-> <<"a", "@", "x">>, mobilePhone |-> << <<"1">> >>],
   [name |-> <<"b">>, email |-> <<"b", "@", "x">>, city |-> << <<"B">> >>]}

ClientUpdates == {[name |-> <<"b", "a">>]}

SearchTerms == {<<>>, <<"a">>, <<"B">>, <<"1">>}

\* Clients whose fields hold capitals and digits, one of them in a phone column.
SearchClientInputs ==
  {[name |-> <<"A", "c">>, email |-> <<"a", "@", "x">>, mobilePhone |-> << <<"B", "1">> >>],
   [name |-> <<"b">>, email |-> <<"b", "@", "x">>, city |-> << <<"B">> >>]}

\* Search terms: none, letters in both cases, a digit, and a character that
\* SQL LIKE reads as a wildcard.
SearchQueries == {<<>>, <<"b">>, <<"B">>, <<"c">>, <<"1">>, <<"_">>}

CampaignInputs ==
  {[name |-> <<"a">>, type |-> "email", subject |-> << <<"b">> >>, message |-> <<"a">>],
   [name |-> <<"b">>, type |-> "whatsapp", message |-> <<"b">>]}

CampaignUpdates == {[message |-> <<"A">>]}

EmailConfigInputs ==
  {[smtpHost |-> "smtp.x.com"],
   [smtpHost |-> "smtp.y.com", isActive |-> TRUE],
   [smtpHost |-> "smtp.y.com", isActive |-> FALSE]}

EmailConfigUpdates == {[isActive |-> TRUE], [isActive |-> FALSE], [smtpHost |-> "smtp.x.com"]}

Permissions == {"maladireta", "emailConfig", "userManagement", "reports"}

(***************************************************************************)
(* The state after construction, and the bookkeeping of a call.            *)
(***************************************************************************)
Empty == [k \in {} |-> <<>>]

\* No data argument.
NoData == Empty

NoCall ==
  [op |-> "none", id |-> 0, userId |-> 0, data |-> NoData, before |-> 0,
   rows |-> NotFound, ok |-> FALSE, count |-> 0, threw |-> FALSE, status |-> 0]

Init ==
  /\ impl \in {"mem", "db"}
  /\ users = Empty
  /\ clients = Empty
  /\ campaigns = Empty
  /\ emailConfigurations = Empty
  /\ nextUserId = 1
  /\ nextClientId = 1
  /\ nextCampaignId = 1
  /\ nextEmailConfigId = 1
  /\ now = 0
  /\ user = <<>>
  /\ isLoading = TRUE
  /\ location = "/"
  /\ nextToken = 1
  /\ pending = {}
  /\ resets = [replaced |-> {}, completed |-> {}]
  /\ last = NoCall

\* The store becomes what the method left.
Apply(s) ==
  /\ users' = s.users
  /\ clients' = s.clients
  /\ campaigns' = s.campaigns
  /\ emailConfigurations' = s.emailConfigurations
  /\ nextUserId' = s.nextUserId
  /\ nextClientId' = s.nextClientId
  /\ nextCampaignId' = s.nextCampaignId
  /\ nextEmailConfigId' = s.nextEmailConfigId

\* A storage method was called with (id, userId, data) and handed back r; before
\* is what the call found in the store (the rows or accounts it is about).
Returned(op, id, userId, data, before, r) ==
  /\ Apply(r.s)
  /\ last' = [op |-> op, id |-> id, userId |-> userId, data |-> data, before |-> before,
              rows |-> r.rows, ok |-> r.ok, count |-> r.count, threw |-> r.threw,
              status |-> 0]
  /\ UNCHANGED <<impl, nextToken, pending, resets, now, user, isLoading, location>>

\* A read-only storage method was called with data and resolved to rows.
Queried(op, id, userId, data, rows) ==
  /\ last' = [op |-> op, id |-> id, userId |-> userId, data |-> data, before |-> 0,
              rows |-> rows, ok |-> rows # NotFound, count |-> 0, threw |-> FALSE,
              status |-> 0]
  /\ UNCHANGED <<impl, nextToken, pending, resets, users, clients, campaigns,
                    emailConfigurations, nextUserId,
                 nextClientId, nextCampaignId, nextEmailConfigId, now, user, isLoading, location>>

\* A read-only storage method was called and resolved to rows.
Read(op, id, userId, rows) == Queried(op, id, userId, NoData, rows)

\* The child rows that name the account uid.
ChildRows(uid) ==
  Cardinality(OwnedBy(clients, uid)) + Cardinality(OwnedBy(campaigns, uid))
    + Cardinality(OwnedBy(emailConfigurations, uid))

\* Time passes between two calls.
Tick ==
  /\ now < MaxTime
  /\ now' = now + 1
  /\ UNCHANGED <<impl, nextToken, pending, resets, users, clients, campaigns,
                    emailConfigurations, nextUserId,
                 nextClientId, nextCampaignId, nextEmailConfigId, user, isLoading, location, last>>

(***************************************************************************)
(* storage.<method>: the calls on the exported IStorage.                   *)
(***************************************************************************)
createUser(choices) ==
  \E userData \in choices :
     Returned("createUser", nextUserId, 0, userData, 0,
              IF impl = "mem" THEN MemCreateUser(Store, userData)
              ELSE DbCreateUser(Store, userData))

createUserByAdmin(choices) ==
  \E userData \in choices :
     Returned("createUserByAdmin", nextUserId, 0, userData, 0,
              IF impl = "mem" THEN MemCreateUserByAdmin(Store, userData)
              ELSE DbCreateUserByAdmin(Store, userData))

updateUserByAdmin(choices) ==
  \E id \in UserIds, userData \in choices :
     Returned("updateUserByAdmin", id, 0, userData, 0,
              IF impl = "mem" THEN MemUpdateUserByAdmin(Store, id, userData)
              ELSE DbUpdateUserByAdmin(Store, id, userData))

updateUser ==
  \E id \in UserIds, updates \in UserUpdates :
     Returned("updateUser", id, 0, updates, 0,
              IF impl = "mem" THEN MemUpdateUser(Store, id, updates)
              ELSE DbUpdateUser(Store, id, updates))

deleteUserById ==
  \E id \in UserIds :
     Returned("deleteUserById", id, 0, NoData, ChildRows(id),
              IF impl = "mem" THEN MemDeleteUserById(Store, id)
              ELSE DbDeleteUserById(Store, id))

\* deleteUserById with a statement the database rejects; MemStorage has none.
deleteUserByIdRejected ==
  /\ impl = "db"
  /\ \E id \in UserIds, failAt \in 1..4 :
        Returned("deleteUserById", id, 0, NoData, ChildRows(id),
                 DbDeleteUserByIdRejected(Store, id, failAt))

deleteAllUsersExceptAdmin ==
  \E adminId \in DOMAIN users :
     \/ /\ impl = "mem"
        /\ Returned("deleteAllUsersExceptAdmin", adminId, 0, NoData,
                    Cardinality((DOMAIN users) \ {adminId}),
                    MemDeleteAllUsersExceptAdmin(Store, adminId))
     \/ /\ impl = "db"
        /\ \E userIds \in Orderings((DOMAIN users) \ {adminId}) :
             Returned("deleteAllUsersExceptAdmin", adminId, 0, NoData,
                    Cardinality((DOMAIN users) \ {adminId}),
                      DbDeleteAllUsersExceptAdmin(Store, adminId, userIds))

getClients(choices) ==
  \E userId \in DOMAIN users, search \in choices :
     \/ /\ impl = "mem"
        /\ Queried("getClients", 0, userId, [search |-> search],
                   MemGetClients(Store, userId, search))
     \/ /\ impl = "db"
        /\ \E rows \in DbGetClients(Store, userId, search) :
             Queried("getClients", 0, userId, [search |-> search], rows)

getClient ==
  \E id \in ClientIds, userId \in DOMAIN users :
     Read("getClient", id, userId,
          IF impl = "mem" THEN MemGetClient(Store, id, userId)
          ELSE DbGetClient(Store, id, userId))

createClient(choices) ==
  \E userId \in DOMAIN users, data \in choices :
     LET clientData == [f \in (DOMAIN data) \cup {"userId"} |->
                          IF f = "userId" THEN userId ELSE data[f]]
     IN Returned("createClient", nextClientId, userId, data, 0,
                 IF impl = "mem" THEN MemCreateClient(Store, clientData)
                 ELSE DbCreateClient(Store, clientData))

updateClient ==
  \E id \in ClientIds, userId \in DOMAIN users, clientData \in ClientUpdates :
     Returned("updateClient", id, userId, clientData, 0,
              IF impl = "mem" THEN MemUpdateClient(Store, id, userId, clientData)
              ELSE DbUpdateClient(Store, id, userId, clientData))

deleteClient ==
  \E id \in ClientIds, userId \in DOMAIN users :
     Returned("deleteClient", id, userId, NoData, 0,
              IF impl = "mem" THEN MemDeleteClient(Store, id, userId)
              ELSE DbDeleteClient(Store, id, userId))

getCampaigns ==
  \E userId \in DOMAIN users :
     \/ /\ impl = "mem"
        /\ Read("getCampaigns", 0, userId, MemGetCampaigns(Store, userId))
     \/ /\ impl = "db"
        /\ \E rows \in DbGetCampaigns(Store, userId) :
             Read("getCampaigns", 0, userId, rows)

getCampaign ==
  \E id \in CampaignIds, userId \in DOMAIN users :
     Read("getCampaign", id, userId,
          IF impl = "mem" THEN MemGetCampaign(Store, id, userId)
          ELSE DbGetCampaign(Store, id, userId))

createCampaign(choices) ==
  \E userId \in DOMAIN users, data \in choices :
     LET campaignData == [f \in (DOMAIN data) \cup {"userId"} |->
                            IF f = "userId" THEN userId ELSE data[f]]
     IN Returned("createCampaign", nextCampaignId, userId, data, 0,
                 IF impl = "mem" THEN MemCreateCampaign(Store, campaignData)
                 ELSE DbCreateCampaign(Store, campaignData))

updateCampaign ==
  \E id \in CampaignIds, userId \in DOMAIN users, campaignData \in CampaignUpdates :
     Returned("updateCampaign", id, userId, campaignData, 0,
              IF impl = "mem" THEN MemUpdateCampaign(Store, id, userId, campaignData)
              ELSE DbUpdateCampaign(Store, id, userId, campaignData))

deleteCampaign ==
  \E id \in CampaignIds, userId \in DOMAIN users :
     Returned("deleteCampaign", id, userId, NoData, 0,
              IF impl = "mem" THEN MemDeleteCampaign(Store, id, userId)
              ELSE DbDeleteCampaign(Store, id, userId))

getEmailConfiguration ==
  \E userId \in DOMAIN users :
     \/ /\ impl = "mem"
        /\ Read("getEmailConfiguration", 0, userId, MemGetEmailConfiguration(Store, userId))
     \/ /\ impl = "db"
        /\ \E rows \in DbGetEmailConfiguration(Store, userId) :
             Read("getEmailConfiguration", 0, userId, rows)

createEmailConfiguration(choices) ==
  \E userId \in DOMAIN users, data \in choices :
     LET configData == [f \in (DOMAIN data) \cup {"userId"} |->
                          IF f = "userId" THEN userId ELSE data[f]]
     IN Returned("createEmailConfiguration", nextEmailConfigId, userId, data,
                 Cardinality(ActiveConfigs(emailConfigurations, userId)),
                 IF impl = "mem" THEN MemCreateEmailConfiguration(Store, configData)
                 ELSE DbCreateEmailConfiguration(Store, configData))

updateEmailConfiguration(choices) ==
  \E id \in EmailConfigIds, userId \in DOMAIN users, configData \in choices :
     Returned("updateEmailConfiguration", id, userId, configData, 0,
              IF impl = "mem" THEN MemUpdateEmailConfiguration(Store, id, userId, configData)
              ELSE DbUpdateEmailConfiguration(Store, id, userId, configData))

deleteEmailConfiguration ==
  \E id \in EmailConfigIds, userId \in DOMAIN users :
     Returned("deleteEmailConfiguration", id, userId, NoData, 0,
              IF impl = "mem" THEN MemDeleteEmailConfiguration(Store, id, userId)
              ELSE DbDeleteEmailConfiguration(Store, id, userId))

(***************************************************************************)
(* AuthProvider (hooks/use-auth.tsx).                                      *)
(***************************************************************************)
\* Something other than a storage call happened: op on behalf of userId, with
\* data, answered with status and rows and the boolean ok.
Happened(op, id, userId, data, status, rows, ok) ==
  last' = [op |-> op, id |-> id, userId |-> userId, data |-> data, before |-> 0,
           rows |-> rows, ok |-> ok, count |-> 0, threw |-> FALSE, status |-> status]

\* loginMutation.onSuccess(userData): the server answered the login with an account.
loginSuccess ==
  \E id \in DOMAIN users :
     /\ user' = <<users[id]>>
     /\ location' = "/"
     /\ Happened("login", 0, id, NoData, 200, NotFound, TRUE)
     /\ UNCHANGED <<isLoading, impl, nextToken, pending, resets, users, clients, campaigns,
                    emailConfigurations, nextUserId,
                    nextClientId, nextCampaignId, nextEmailConfigId, now>>

\* logoutMutation.onSuccess
logoutSuccess ==
  /\ user # <<>>
  /\ user' = <<>>
  /\ location' = "/auth"
  /\ Happened("logout", 0, 0, NoData, 200, NotFound, TRUE)
  /\ UNCHANGED <<isLoading, impl, nextToken, pending, resets, users, clients, campaigns,
                    emailConfigurations, nextUserId,
                 nextClientId, nextCampaignId, nextEmailConfigId, now>>

\* A component asks hasPermission(permission).
askPermission ==
  \E permission \in Permissions :
     /\ Happened("hasPermission", 0, 0, [permission |-> permission], 0, NotFound,
                 hasPermission(user, permission))
     /\ UNCHANGED <<impl, nextToken, pending, resets, users, clients, campaigns,
                    emailConfigurations, nextUserId,
                    nextClientId, nextCampaignId, nextEmailConfigId, now, user, isLoading, location>>

NextAuth ==
  \/ nextUserId <= StoreUsers /\ createUserByAdmin(AdminUserData(nextUserId))
  \/ loginSuccess
  \/ logoutSuccess
  \/ askPermission

SpecAuth == Init /\ [][NextAuth]_vars

(***************************************************************************)
(* The pages of the client (App.tsx, lib/protected-route.tsx) and the      *)
(* callbacks of AuthProvider.                                              *)
(***************************************************************************)
\* The paths Router names, and one it does not.
Paths ==
  {"/auth", "/reset-password", "/", "/mala-direta", "/email-config", "/user-management",
   "/other"}

\* The routes whose element is a ProtectedRoute, and the requirePermission each
\* passes: <<>> when it passes none.
ProtectedPaths == {"/", "/mala-direta", "/email-config", "/user-management"}

RequirePermission(path) ==
  CASE path = "/mala-direta" -> <<"maladireta">>
    [] path = "/email-config" -> <<"emailConfig">>
    [] path = "/user-management" -> <<"userManagement">>
    [] OTHER -> <<>>

\* A ProtectedRoute that does not look at requirePermission.
ProtectedRouteAnyUser(u, loading, requirePermission) ==
  IF loading THEN "Carregando..."
  ELSE IF u = <<>> THEN "null"
  ELSE "children"

\* What ProtectedRoute returns.
ProtectedRoute(u, loading, requirePermission) ==
  IF loading THEN "Carregando..."
  ELSE IF u = <<>> THEN "null"
  ELSE IF requirePermission # <<>> /\ ~hasPermission(u, requirePermission[1])
       THEN "Acesso Negado"
  ELSE "children"

\* What UserManagementPage returns: its own check of the current user comes first,
\* and its card says who may open the page.
UserManagementPage(u) ==
  IF u = <<>> \/ u[1].role # "admin" THEN "Acesso Negado: administrador"
  ELSE "UserManagementPage"

\* The children of the ProtectedRoute at path.
Children(path, u) ==
  CASE path = "/" -> "HomePage"
    [] path = "/mala-direta" -> "MalaDiretaPage"
    [] path = "/email-config" -> "EmailConfigPage"
    [] path = "/user-management" -> UserManagementPage(u)

\* What Router shows at path.
Router(path, u, loading) ==
  CASE path = "/auth" -> "AuthPage"
    [] path = "/reset-password" -> "ResetPasswordPage"
    [] path \in ProtectedPaths ->
         IF ProtectedRoute(u, loading, RequirePermission(path)) = "children"
         THEN Children(path, u)
         ELSE ProtectedRoute(u, loading, RequirePermission(path))
    [] OTHER -> "NotFound"

\* The client changed state: op happened, with data.
ClientStep(op, data, ok) ==
  /\ Happened(op, 0, 0, data, 0, NotFound, ok)
  /\ UNCHANGED <<impl, nextToken, resets, users, clients, campaigns, emailConfigurations,
                 nextUserId, nextClientId, nextCampaignId, nextEmailConfigId, now>>

\* The visitor follows a link or enters a path.
navigate ==
  \E path \in Paths :
     /\ location' = path
     /\ ClientStep("navigate", [location |-> location], TRUE)
     /\ UNCHANGED <<user, isLoading, pending>>

\* The useEffect of ProtectedRoute.
ProtectedRouteEffect ==
  /\ location \in ProtectedPaths
  /\ IF ~isLoading /\ user = <<>> THEN location' = "/auth"
     ELSE /\ ~isLoading
          /\ user # <<>>
          /\ RequirePermission(location) # <<>>
          /\ ~hasPermission(user, RequirePermission(location)[1])
          /\ location' = "/"
  /\ ClientStep("ProtectedRoute.useEffect", [location |-> location], TRUE)
  /\ UNCHANGED <<user, isLoading, pending>>

\* AuthProvider has mounted: its useEffect has called checkAuth.
Mounted == ~isLoading \/ \E p \in pending : p.op = "checkAuth"

\* The useEffect of AuthProvider: checkAuth() runs up to its fetch.
checkAuth ==
  /\ ~Mounted
  /\ pending' = pending \cup {[op |-> "checkAuth"]}
  /\ ClientStep("checkAuth", NoData, TRUE)
  /\ UNCHANGED <<user, isLoading, location>>

\* checkAuth after its awaits, when the response was ok and carried an account.
checkAuthOk ==
  \E p \in pending, id \in DOMAIN users :
     /\ p.op = "checkAuth"
     /\ user' = <<users[id]>>
     /\ isLoading' = FALSE
     /\ pending' = pending \ {p}
     /\ ClientStep("checkAuth: ok", NoData, TRUE)
     /\ UNCHANGED location

\* ... when the response was not ok: only the finally block runs.
checkAuthNotOk ==
  \E p \in pending :
     /\ p.op = "checkAuth"
     /\ isLoading' = FALSE
     /\ pending' = pending \ {p}
     /\ ClientStep("checkAuth: not ok", NoData, FALSE)
     /\ UNCHANGED <<user, location>>

\* ... when fetch or response.json() threw: the catch block, then finally.
checkAuthThrew ==
  \E p \in pending :
     /\ p.op = "checkAuth"
     /\ user' = <<>>
     /\ isLoading' = FALSE
     /\ pending' = pending \ {p}
     /\ ClientStep("checkAuth: threw", NoData, FALSE)
     /\ UNCHANGED location

\* A browser session: accounts exist, the application mounts, and the visitor
\* moves between the pages, logs in and out.
NextClient ==
  \/ nextUserId <= ClientUsers /\ createUserByAdmin(AdminUserData(nextUserId))
  \/ checkAuth
  \/ checkAuthOk
  \/ checkAuthNotOk
  \/ checkAuthThrew
  \/ Mounted /\ loginSuccess
  \/ Mounted /\ logoutSuccess
  \/ Mounted /\ navigate
  \/ Mounted /\ ProtectedRouteEffect

SpecClient == Init /\ [][NextClient]_vars

\* The browser settles every fetch, and React runs the effect of a mounted
\* component.
SpecClientLive ==
  /\ SpecClient
  /\ WF_vars(checkAuth)
  /\ WF_vars(checkAuthOk \/ checkAuthNotOk \/ checkAuthThrew)

(***************************************************************************)
(* The route handlers (server/routes.ts).  principal is the account the    *)
(* session resolves to, 0 when the request carries no session.             *)
(***************************************************************************)
\* req.isAuthenticated()
isAuthenticated(principal) == principal \in DOMAIN users

\* parseInt(req.params.id) of a path segment that is no number.
NaN == -1

\* insertCampaignSchema.parse(body): <<data>>, unknown keys stripped, or <<>> when
\* it throws a ZodError.
insertCampaignSchemaParse(body) ==
  IF /\ {"name", "type", "message"} \subseteq DOMAIN body
     /\ Len(body.name) >= 1
     /\ body.type \in {"email", "whatsapp"}
     /\ Len(body.message) >= 1
  THEN <<[f \in (DOMAIN body) \cap {"name", "type", "subject", "message"} |-> body[f]]>>
  ELSE <<>>

\* insertCampaignSchema.partial().parse(body)
insertCampaignSchemaPartialParse(body) ==
  IF /\ "name" \in DOMAIN body => Len(body.name) >= 1
     /\ "type" \in DOMAIN body => body.type \in {"email", "whatsapp"}
     /\ "message" \in DOMAIN body => Len(body.message) >= 1
  THEN <<[f \in (DOMAIN body) \cap {"name", "type", "subject", "message"} |-> body[f]]>>
  ELSE <<>>

\* Request bodies of POST /api/campaigns: a campaign, a campaign that also
\* carries userId and id, and one with an empty name.
CampaignBodies ==
  {d \in CampaignInputs : "subject" \notin DOMAIN d}
    \cup {[f \in (DOMAIN d) \cup {"userId", "id"} |->
             IF f = "userId" THEN 1 ELSE IF f = "id" THEN 7 ELSE d[f]] :
             d \in {e \in CampaignInputs : "subject" \in DOMAIN e}}
    \cup {[name |-> <<>>, type |-> "email", message |-> <<"a">>]}

\* Request bodies of PUT /api/campaigns/:id: a change that also carries userId,
\* and a type the schema rejects.
CampaignPatches ==
  {[f \in (DOMAIN d) \cup {"userId"} |-> IF f = "userId" THEN 1 ELSE d[f]] :
     d \in CampaignUpdates} \cup {[type |-> "sms"]}

\* Values of req.body.clientIds of POST /api/campaigns/:id/send: three arrays and
\* a value that is no array (undefined, a string).
ClientIdsValues ==
  {[isArray |-> TRUE, items |-> <<>>], [isArray |-> TRUE, items |-> <<1>>],
   [isArray |-> TRUE, items |-> <<1, 2>>], [isArray |-> FALSE, items |-> <<>>]}

\* The handler answered status with rows as its body; the store is what the
\* storage call r left.
Responded(op, id, principal, data, status, rows, s) ==
  /\ Apply(s)
  /\ Happened(op, id, principal, data, status, rows, status < 400)
  /\ UNCHANGED <<impl, nextToken, pending, resets, now, user, isLoading, location>>

\* GET /api/campaigns
GetCampaignsRoute ==
  \E principal \in {0} \cup DOMAIN users :
     IF ~isAuthenticated(principal)
     THEN Responded("GET /api/campaigns", 0, principal, NoData, 401, NotFound, Store)
     ELSE \E list \in (IF impl = "mem" THEN {MemGetCampaigns(Store, principal)}
                       ELSE DbGetCampaigns(Store, principal)) :
            Responded("GET /api/campaigns", 0, principal, NoData, 200, list, Store)

\* POST /api/campaigns
PostCampaignsRoute ==
  \E principal \in {0} \cup DOMAIN users, body \in CampaignBodies :
     IF ~isAuthenticated(principal)
     THEN Responded("POST /api/campaigns", 0, principal, body, 401, NotFound, Store)
     ELSE LET validatedData == insertCampaignSchemaParse(body)
          IN IF validatedData = <<>>
             THEN Responded("POST /api/campaigns", 0, principal, body, 400, NotFound, Store)
             ELSE LET campaignData ==
                        [f \in (DOMAIN validatedData[1]) \cup {"userId"} |->
                           IF f = "userId" THEN principal ELSE validatedData[1][f]]
                      r == IF impl = "mem" THEN MemCreateCampaign(Store, campaignData)
                           ELSE DbCreateCampaign(Store, campaignData)
                  IN IF r.threw
                     THEN Responded("POST /api/campaigns", 0, principal, body, 500,
                                    NotFound, r.s)
                     ELSE Responded("POST /api/campaigns", r.rows[1].id, principal, body,
                                    201, r.rows, r.s)

\* PUT /api/campaigns/:id
PutCampaignRoute ==
  \E principal \in {0} \cup DOMAIN users, id \in {NaN} \cup CampaignIds,
     body \in CampaignPatches :
     IF ~isAuthenticated(principal)
     THEN Responded("PUT /api/campaigns/:id", id, principal, body, 401, NotFound, Store)
     ELSE IF id = NaN
     THEN Responded("PUT /api/campaigns/:id", id, principal, body, 400, NotFound, Store)
     ELSE LET validatedData == insertCampaignSchemaPartialParse(body)
          IN IF validatedData = <<>>
             THEN Responded("PUT /api/campaigns/:id", id, principal, body, 400, NotFound,
                            Store)
             ELSE LET r == IF impl = "mem"
                           THEN MemUpdateCampaign(Store, id, principal, validatedData[1])
                           ELSE DbUpdateCampaign(Store, id, principal, validatedData[1])
                  IN IF r.rows = NotFound
                     THEN Responded("PUT /api/campaigns/:id", id, principal, body, 404,
                                    NotFound, r.s)
                     ELSE Responded("PUT /api/campaigns/:id", id, principal, body, 200,
                                    r.rows, r.s)

\* DELETE /api/campaigns/:id
DeleteCampaignRoute ==
  \E principal \in {0} \cup DOMAIN users, id \in {NaN} \cup CampaignIds :
     IF ~isAuthenticated(principal)
     THEN Responded("DELETE /api/campaigns/:id", id, principal, NoData, 401, NotFound, Store)
     ELSE IF id = NaN
     THEN Responded("DELETE /api/campaigns/:id", id, principal, NoData, 400, NotFound, Store)
     ELSE LET r == IF impl = "mem" THEN MemDeleteCampaign(Store, id, principal)
                   ELSE DbDeleteCampaign(Store, id, principal)
          IN IF ~r.ok
             THEN Responded("DELETE /api/campaigns/:id", id, principal, NoData, 404,
                            NotFound, r.s)
             ELSE Responded("DELETE /api/campaigns/:id", id, principal, NoData, 204,
                            NotFound, r.s)

\* A POST /api/campaigns/:id/send that looks the campaign up before it tests
\* req.body.clientIds.
SendCampaignRouteLookupFirst ==
  \E principal \in {0} \cup DOMAIN users, id \in {NaN} \cup CampaignIds,
     clientIds \in ClientIdsValues :
     LET body == [clientIds |-> clientIds]
         campaign == IF impl = "mem" THEN MemGetCampaign(Store, id, principal)
                     ELSE DbGetCampaign(Store, id, principal)
     IN IF ~isAuthenticated(principal)
        THEN Responded("POST /api/campaigns/:id/send", id, principal, body, 401, NotFound,
                       Store)
        ELSE IF id = NaN
        THEN Responded("POST /api/campaigns/:id/send", id, principal, body, 400, NotFound,
                       Store)
        ELSE IF campaign = NotFound
        THEN Responded("POST /api/campaigns/:id/send", id, principal, body, 404, NotFound,
                       Store)
        ELSE IF ~clientIds.isArray \/ Len(clientIds.items) = 0
        THEN Responded("POST /api/campaigns/:id/send", id, principal, body, 400, NotFound,
                       Store)
        ELSE Responded("POST /api/campaigns/:id/send", id, principal, body, 200,
                       <<[campaignId |-> id, recipientCount |-> Len(clientIds.items)]>>, Store)

\* POST /api/campaigns/:id/send
SendCampaignRoute ==
  \E principal \in {0} \cup DOMAIN users, id \in {NaN} \cup CampaignIds,
     clientIds \in ClientIdsValues :
     LET body == [clientIds |-> clientIds]
         campaign == IF impl = "mem" THEN MemGetCampaign(Store, id, principal)
                     ELSE DbGetCampaign(Store, id, principal)
     IN IF ~isAuthenticated(principal)
        THEN Responded("POST /api/campaigns/:id/send", id, principal, body, 401, NotFound,
                       Store)
        ELSE IF id = NaN
        THEN Responded("POST /api/campaigns/:id/send", id, principal, body, 400, NotFound,
                       Store)
        ELSE IF ~clientIds.isArray \/ Len(clientIds.items) = 0
        THEN Responded("POST /api/campaigns/:id/send", id, principal, body, 400, NotFound,
                       Store)
        ELSE IF campaign = NotFound
        THEN Responded("POST /api/campaigns/:id/send", id, principal, body, 404, NotFound,
                       Store)
        ELSE Responded("POST /api/campaigns/:id/send", id, principal, body, 200,
                       <<[campaignId |-> id, recipientCount |-> Len(clientIds.items)]>>, Store)

\* z.string().email(): the text has an @ with something before and after it.
IsEmail(text) ==
  \E i \in 2..(Len(text) - 1) : text[i] = "@"

\* The keys insertClientSchema keeps of those the model's bodies may carry.
ClientSchemaKeys ==
  {"name", "clientType", "email", "cpfCnpj", "mobilePhone", "landlinePhone", "city",
   "businessArea"}

\* insertClientSchema.parse(body): <<data>>, unknown keys stripped, or <<>> when
\* it throws a ZodError.
insertClientSchemaParse(body) ==
  IF /\ {"name", "clientType", "email"} \subseteq DOMAIN body
     /\ Len(body.name) >= 1
     /\ body.clientType \in {"PF", "PJ"}
     /\ IsEmail(body.email)
  THEN <<[f \in (DOMAIN body) \cap ClientSchemaKeys |-> body[f]]>>
  ELSE <<>>

\* A partial parse that lets userId through.
PartialParseKeepsUserId(body) ==
  IF /\ "name" \in DOMAIN body => Len(body.name) >= 1
     /\ "clientType" \in DOMAIN body => body.clientType \in {"PF", "PJ"}
     /\ "email" \in DOMAIN body => IsEmail(body.email)
  THEN <<[f \in (DOMAIN body) \cap (ClientSchemaKeys \cup {"userId"}) |-> body[f]]>>
  ELSE <<>>

\* insertClientSchema.partial().parse(body)
insertClientSchemaPartialParse(body) ==
  IF /\ "name" \in DOMAIN body => Len(body.name) >= 1
     /\ "clientType" \in DOMAIN body => body.clientType \in {"PF", "PJ"}
     /\ "email" \in DOMAIN body => IsEmail(body.email)
  THEN <<[f \in (DOMAIN body) \cap ClientSchemaKeys |-> body[f]]>>
  ELSE <<>>

\* Request bodies of POST /api/clients: a client, a client that also carries
\* userId and id, and one with an empty name.
ClientBodies ==
  {[name |-> <<"b">>, clientType |-> "PF", email |-> <<"b", "@", "x">>],
   [name |-> <<"A", "c">>, clientType |-> "PJ", email |-> <<"a", "@", "x">>,
    userId |-> 1, id |-> 7],
   [name |-> <<>>, clientType |-> "PF", email |-> <<"b", "@", "x">>]}

\* Request bodies of PUT /api/clients/:id.
ClientPatches == {[name |-> <<"b", "a">>, userId |-> 1], [clientType |-> "XX"]}

\* req.query.search of GET /api/clients: left out, or a term.
RouteSearchTerms == {<<>>, <<"b">>}

\* { ...validatedData, userId: req.user!.id }
WithUserId(validatedData, principal) ==
  [f \in (DOMAIN validatedData) \cup {"userId"} |->
     IF f = "userId" THEN principal ELSE validatedData[f]]

\* GET /api/clients
GetClientsRoute ==
  \E principal \in {0} \cup DOMAIN users, search \in RouteSearchTerms :
     LET query == [search |-> search]
     IN IF ~isAuthenticated(principal)
        THEN Responded("GET /api/clients", 0, principal, query, 401, NotFound, Store)
        ELSE \E list \in (IF impl = "mem" THEN {MemGetClients(Store, principal, search)}
                          ELSE DbGetClients(Store, principal, search)) :
               Responded("GET /api/clients", 0, principal, query, 200, list, Store)

\* A POST /api/clients that hands req.body to storage.createClient, the userId
\* of the session filled in only where the body has none.
PostClientsRouteTrustsBody ==
  \E principal \in DOMAIN users, body \in ClientBodies :
     LET clientData == IF "userId" \in DOMAIN body THEN body ELSE WithUserId(body, principal)
         r == IF impl = "mem" THEN MemCreateClient(Store, clientData)
              ELSE DbCreateClient(Store, clientData)
     IN IF r.threw
        THEN Responded("POST /api/clients", 0, principal, body, 500, NotFound, r.s)
        ELSE Responded("POST /api/clients", r.rows[1].id, principal, body, 201, r.rows, r.s)

\* POST /api/clients
PostClientsRoute ==
  \E principal \in {0} \cup DOMAIN users, body \in ClientBodies :
     IF ~isAuthenticated(principal)
     THEN Responded("POST /api/clients", 0, principal, body, 401, NotFound, Store)
     ELSE LET validatedData == insertClientSchemaParse(body)
          IN IF validatedData = <<>>
             THEN Responded("POST /api/clients", 0, principal, body, 400, NotFound, Store)
             ELSE LET clientData == WithUserId(validatedData[1], principal)
                      r == IF impl = "mem" THEN MemCreateClient(Store, clientData)
                           ELSE DbCreateClient(Store, clientData)
                  IN IF r.threw
                     THEN Responded("POST /api/clients", 0, principal, body, 500,
                                    NotFound, r.s)
                     ELSE Responded("POST /api/clients", r.rows[1].id, principal, body,
                                    201, r.rows, r.s)

\* PUT /api/clients/:id
PutClientRoute ==
  \E principal \in {0} \cup DOMAIN users, id \in {NaN} \cup ClientIds,
     body \in ClientPatches :
     IF ~isAuthenticated(principal)
     THEN Responded("PUT /api/clients/:id", id, principal, body, 401, NotFound, Store)
     ELSE IF id = NaN
     THEN Responded("PUT /api/clients/:id", id, principal, body, 400, NotFound, Store)
     ELSE LET validatedData == insertClientSchemaPartialParse(body)
          IN IF validatedData = <<>>
             THEN Responded("PUT /api/clients/:id", id, principal, body, 400, NotFound,
                            Store)
             ELSE LET r == IF impl = "mem"
                           THEN MemUpdateClient(Store, id, principal, validatedData[1])
                           ELSE DbUpdateClient(Store, id, principal, validatedData[1])
                  IN IF r.rows = NotFound
                     THEN Responded("PUT /api/clients/:id", id, principal, body, 404,
                                    NotFound, r.s)
                     ELSE Responded("PUT /api/clients/:id", id, principal, body, 200,
                                    r.rows, r.s)

\* A DELETE /api/clients/:id without the req.isAuthenticated() test.
DeleteClientRouteWithoutSession ==
  \E principal \in {0} \cup DOMAIN users, id \in {NaN} \cup ClientIds :
     IF id = NaN
     THEN Responded("DELETE /api/clients/:id", id, principal, NoData, 400, NotFound, Store)
     ELSE LET r == IF impl = "mem" THEN MemDeleteClient(Store, id, principal)
                   ELSE DbDeleteClient(Store, id, principal)
          IN IF ~r.ok
             THEN Responded("DELETE /api/clients/:id", id, principal, NoData, 404,
                            NotFound, r.s)
             ELSE Responded("DELETE /api/clients/:id", id, principal, NoData, 204,
                            NotFound, r.s)

\* DELETE /api/clients/:id
DeleteClientRoute ==
  \E principal \in {0} \cup DOMAIN users, id \in {NaN} \cup ClientIds :
     IF ~isAuthenticated(principal)
     THEN Responded("DELETE /api/clients/:id", id, principal, NoData, 401, NotFound, Store)
     ELSE IF id = NaN
     THEN Responded("DELETE /api/clients/:id", id, principal, NoData, 400, NotFound, Store)
     ELSE LET r == IF impl = "mem" THEN MemDeleteClient(Store, id, principal)
                   ELSE DbDeleteClient(Store, id, principal)
          IN IF ~r.ok
             THEN Responded("DELETE /api/clients/:id", id, principal, NoData, 404,
                            NotFound, r.s)
             ELSE Responded("DELETE /api/clients/:id", id, principal, NoData, 204,
                            NotFound, r.s)

ClientRoutes ==
  {"GET /api/clients", "POST /api/clients", "PUT /api/clients/:id",
   "DELETE /api/clients/:id"}

CampaignRoutes ==
  {"GET /api/campaigns", "POST /api/campaigns", "PUT /api/campaigns/:id",
   "DELETE /api/campaigns/:id", "POST /api/campaigns/:id/send"}

\* The accounts of these runs: users without the direct-mail capability (no
\* handler reads the role or a flag).
RouteAccounts(n) ==
  {d \in AdminUserData(n) :
     d.role = "user" /\ d.canAccessEmailConfig /\ ~d.canAccessMaladireta}

\* The run has created rows in one table only.
OnlyClients == nextCampaignId = 1 /\ nextEmailConfigId = 1
OnlyCampaigns == nextClientId = 1 /\ nextEmailConfigId = 1
OnlyEmailConfigurations == nextClientId = 1 /\ nextCampaignId = 1

\* What insertEmailConfigurationSchema lets through to the storage methods;
\* routes.ts has no route for email configurations.
RouteEmailConfigInputs == {d \in EmailConfigInputs : "isActive" \notin DOMAIN d}
RouteEmailConfigUpdates == {d \in EmailConfigUpdates : "smtpHost" \in DOMAIN d}

\* A run sends requests to the client routes or to the campaign routes, or
\* stores and changes email configurations.
NextRoutes ==
  \/ nextUserId <= RouteUsers /\ createUserByAdmin(RouteAccounts(nextUserId))
  \/ OnlyClients /\ GetClientsRoute
  \/ OnlyClients /\ nextClientId <= RouteRows /\ PostClientsRoute
  \/ OnlyClients /\ PutClientRoute
  \/ OnlyClients /\ DeleteClientRoute
  \/ OnlyCampaigns /\ GetCampaignsRoute
  \/ OnlyCampaigns /\ nextCampaignId <= RouteRows /\ PostCampaignsRoute
  \/ OnlyCampaigns /\ PutCampaignRoute
  \/ OnlyCampaigns /\ DeleteCampaignRoute
  \/ OnlyCampaigns /\ SendCampaignRoute
  \/ /\ OnlyEmailConfigurations
     /\ nextEmailConfigId <= RouteRows
     /\ createEmailConfiguration(RouteEmailConfigInputs)
  \/ OnlyEmailConfigurations /\ updateEmailConfiguration(RouteEmailConfigUpdates)

SpecRoutes == Init /\ [][NextRoutes]_vars

(***************************************************************************)
(* The password-reset routes (server/routes.ts).  A handler runs from one  *)
(* await on real I/O to the next without another request in between: every *)
(* DatabaseStorage call is such an await, a MemStorage call is not, and    *)
(* hashPassword and sendMail are.                                          *)
(***************************************************************************)
\* new Date(Date.now() + 3600000): one hour, one tick of the clock.
TokenLifetime == 1

\* hashPassword(newPassword) of server/auth.ts: not the password itself.
hashPassword(password) == <<"#">> \o password

\* The messages of the two handlers.
MsgEmailRequired == <<[message |-> "Email e obrigatorio"]>>
MsgIfEmailExists ==
  <<[message |-> "Se o email existir, voce recebera instrucoes para redefinir sua senha"]>>
MsgNoEmailConfiguration == <<[message |-> "Configuracao de email nao encontrada"]>>
MsgInternalError == <<[message |-> "Erro interno do servidor"]>>
MsgTokenRequired == <<[message |-> "Token e nova senha sao obrigatorios"]>>
MsgInvalidToken == <<[message |-> "Token invalido ou expirado"]>>
MsgPasswordReset == <<[message |-> "Senha redefinida com sucesso"]>>

\* req.body.email: left out, the email of an account, an email of no account.
ForgotEmails == {<<>>, <<"n", "o", "@", "x">>} \cup {Registration(n).email : n \in 1..ResetUsers}

\* req.body.token: 0 is a body without token; nextToken was never issued.
ResetTokens == 0..nextToken

\* req.body.newPassword: left out, or a password.
NewPasswords == {<<>>, <<"n">>}

\* A DatabaseStorage call may be rejected by the database; a MemStorage call is not.
StoreFails == IF impl = "db" THEN BOOLEAN ELSE {FALSE}

\* The handler went on to its next await, or answered, leaving the store s.
Step(op, id, data, status, rows, s) ==
  /\ Apply(s)
  /\ Happened(op, id, 0, data, status, rows, status = 200)
  /\ UNCHANGED <<impl, now, user, isLoading, location>>

\* The one email configuration an account of these runs may set up.
ResetEmailConfigInputs == {d \in EmailConfigInputs : "isActive" \notin DOMAIN d}

\* POST /api/forgot-password
ForgotPasswordRoute ==
  \E email \in ForgotEmails, sendOk \in BOOLEAN :
    LET body == [email |-> email]
        Answer(status, rows, s) == Step("POST /api/forgot-password", 0, body, status, rows, s)
    IN IF email = <<>>
       THEN Answer(400, MsgEmailRequired, Store) /\ UNCHANGED <<nextToken, pending, resets>>
       ELSE \E found \in (IF impl = "mem" THEN {MemGetUserByEmail(Store, email)}
                           ELSE DbGetUserByEmail(Store, email)) :
         IF found = NotFound
         THEN Answer(200, MsgIfEmailExists, Store) /\ UNCHANGED <<nextToken, pending, resets>>
         ELSE LET resetToken == nextToken
                  tokenExpiry == now + TokenLifetime
                  r == IF impl = "mem"
                       THEN MemSetPasswordResetToken(Store, found[1].id, resetToken, tokenExpiry)
                       ELSE DbSetPasswordResetToken(Store, found[1].id, resetToken, tokenExpiry)
              IN /\ nextToken' = nextToken + 1
                 /\ UNCHANGED <<pending, resets>>
                 /\ \E emailConfig \in
                        (IF impl = "mem" THEN {MemGetEmailConfiguration(r.s, found[1].id)}
                         ELSE DbGetEmailConfiguration(r.s, found[1].id)) :
                      IF emailConfig = NotFound
                      THEN Answer(400, MsgNoEmailConfiguration, r.s)
                      ELSE IF ~sendOk
                      THEN Answer(500, MsgInternalError, r.s)
                      ELSE Answer(200, MsgIfEmailExists, r.s)

\* A POST /api/reset-password that refuses the token from the instant of its
\* expiry on.
ResetPasswordRouteExpiresEarly ==
  \E token \in ResetTokens, newPassword \in NewPasswords :
    LET body == [token |-> token, newPassword |-> newPassword]
        Answer(status, rows) ==
          /\ Step("POST /api/reset-password", 0, body, status, rows, Store)
          /\ UNCHANGED <<nextToken, pending, resets>>
    IN IF token = 0 \/ newPassword = <<>>
       THEN Answer(400, MsgTokenRequired)
       ELSE \E found \in (IF impl = "mem" THEN {MemGetUserByResetToken(Store, token)}
                           ELSE DbGetUserByResetToken(Store, token)) :
         IF \/ found = NotFound
            \/ found[1].resetTokenExpiry = <<>>
            \/ now >= found[1].resetTokenExpiry[1]
         THEN Answer(400, MsgInvalidToken)
         ELSE /\ Step("POST /api/reset-password", found[1].id, body, 0, NotFound, Store)
              /\ pending' = pending \cup
                    {[userId |-> found[1].id, token |-> token,
                      password |-> hashPassword(newPassword), pc |-> "hashPassword"]}
              /\ UNCHANGED <<nextToken, resets>>

\* POST /api/reset-password, up to `await hashPassword(newPassword)`.
ResetPasswordRoute ==
  \E token \in ResetTokens, newPassword \in NewPasswords :
    LET body == [token |-> token, newPassword |-> newPassword]
        Answer(status, rows) ==
          /\ Step("POST /api/reset-password", 0, body, status, rows, Store)
          /\ UNCHANGED <<nextToken, pending, resets>>
    IN IF token = 0 \/ newPassword = <<>>
       THEN Answer(400, MsgTokenRequired)
       ELSE \E found \in (IF impl = "mem" THEN {MemGetUserByResetToken(Store, token)}
                           ELSE DbGetUserByResetToken(Store, token)) :
         IF \/ found = NotFound
            \/ found[1].resetTokenExpiry = <<>>
            \/ now > found[1].resetTokenExpiry[1]
         THEN Answer(400, MsgInvalidToken)
         ELSE /\ Step("POST /api/reset-password", found[1].id, body, 0, NotFound, Store)
              /\ pending' = pending \cup
                    {[userId |-> found[1].id, token |-> token,
                      password |-> hashPassword(newPassword), pc |-> "hashPassword"]}
              /\ UNCHANGED <<nextToken, resets>>

\* ... `await storage.updateUser(user.id, { password: hashedPassword })`, and
\* with MemStorage on through clearPasswordResetToken to the answer.
ResetPasswordUpdateUser ==
  \E p \in pending, fails \in StoreFails :
    LET data == [token |-> p.token, password |-> p.password]
        updates == [password |-> p.password]
    IN /\ p.pc = "hashPassword"
       /\ UNCHANGED nextToken
       /\ IF fails
          THEN /\ Step("reset-password: updateUser", p.userId, data, 500,
                        MsgInternalError, Store)
               /\ pending' = pending \ {p}
               /\ UNCHANGED resets
          ELSE IF impl = "mem"
          THEN LET r1 == MemUpdateUser(Store, p.userId, updates)
                   r2 == MemClearPasswordResetToken(r1.s, p.userId)
               IN /\ Step("reset-password: updateUser", p.userId, data, 200,
                           MsgPasswordReset, r2.s)
                  /\ pending' = pending \ {p}
                  /\ resets' = [replaced |-> resets.replaced \cup {p.token},
                                completed |-> resets.completed \cup {p.token}]
          ELSE LET r1 == DbUpdateUser(Store, p.userId, updates)
               IN /\ Step("reset-password: updateUser", p.userId, data, 0, NotFound, r1.s)
                  /\ pending' = (pending \ {p}) \cup {[p EXCEPT !.pc = "updateUser"]}
                  /\ resets' = [resets EXCEPT !.replaced = @ \cup {p.token}]

\* ... `await storage.clearPasswordResetToken(user.id)` of DatabaseStorage, and
\* the answer.
ResetPasswordClearToken ==
  \E p \in pending, fails \in StoreFails :
    LET data == [token |-> p.token, password |-> p.password]
    IN /\ p.pc = "updateUser"
       /\ UNCHANGED nextToken
       /\ pending' = pending \ {p}
       /\ IF fails
          THEN /\ Step("reset-password: clearPasswordResetToken", p.userId, data, 500,
                        MsgInternalError, Store)
               /\ UNCHANGED resets
          ELSE LET r2 == DbClearPasswordResetToken(Store, p.userId)
               IN /\ Step("reset-password: clearPasswordResetToken", p.userId, data, 200,
                           MsgPasswordReset, r2.s)
                  /\ resets' = [resets EXCEPT !.completed = @ \cup {p.token}]

NextReset ==
  \/ nextUserId <= ResetUsers /\ createUser(SelfRegistrations(nextUserId))
  \/ nextEmailConfigId = 1 /\ createEmailConfiguration(ResetEmailConfigInputs)
  \/ Tick
  \/ nextToken <= MaxTokens /\ ForgotPasswordRoute
  \/ Cardinality(pending) < MaxPending /\ ResetPasswordRoute
  \/ ResetPasswordUpdateUser
  \/ ResetPasswordClearToken

SpecReset == Init /\ [][NextReset]_vars

(***************************************************************************)
(* Storage calls that overlap.  A DatabaseStorage method is suspended at    *)
(* each of its awaited statements, and other calls run in between; a       *)
(* MemStorage method runs from its first line to its last without a break.  *)
(***************************************************************************)
\* A number no call in flight has.
NextCall ==
  CHOOSE n \in 1..(Cardinality(pending) + 1) : \A p \in pending : p.call # n

\* A step of a call in flight: the store becomes r.s.
StepOfCall(op, id, userId, data, r) ==
  /\ Apply(r.s)
  /\ last' = [op |-> op, id |-> id, userId |-> userId, data |-> data, before |-> 0,
              rows |-> r.rows, ok |-> r.ok, count |-> r.count, threw |-> r.threw,
              status |-> 0]
  /\ UNCHANGED <<impl, nextToken, resets, now, user, isLoading, location>>

\* DatabaseStorage.createEmailConfiguration up to the end of its UPDATE.
createEmailConfigurationUpdate(choices) ==
  /\ impl = "db"
  /\ \E userId \in DOMAIN users, data \in choices :
       LET configData == [f \in (DOMAIN data) \cup {"userId"} |->
                            IF f = "userId" THEN userId ELSE data[f]]
       IN /\ StepOfCall("createEmailConfiguration: update", 0, userId, data,
                        DbDeactivateEmailConfigurations(Store, userId))
          /\ pending' = pending \cup
                {[op |-> "createEmailConfiguration", call |-> NextCall,
                  configData |-> configData]}

\* ... and its INSERT.
createEmailConfigurationInsert ==
  \E p \in pending :
     /\ p.op = "createEmailConfiguration"
     /\ StepOfCall("createEmailConfiguration", nextEmailConfigId, p.configData.userId,
                   p.configData, DbInsertEmailConfiguration(Store, p.configData))
     /\ pending' = pending \ {p}

\* MemStorage.createEmailConfiguration, which has no await.
createEmailConfigurationAtOnce(choices) ==
  impl = "mem" /\ createEmailConfiguration(choices)

\* Accounts create email configurations and read the active one while other
\* calls are in flight.
NextConfig ==
  \/ nextUserId <= ConfigUsers /\ createUser({Registration(nextUserId)})
  \/ nextEmailConfigId <= ConfigRows /\ createEmailConfigurationAtOnce(ResetEmailConfigInputs)
  \/ /\ nextEmailConfigId + Cardinality(pending) <= ConfigRows
     /\ createEmailConfigurationUpdate(ResetEmailConfigInputs)
  \/ createEmailConfigurationInsert
  \/ getEmailConfiguration

SpecConfig == Init /\ [][NextConfig]_vars

\* storage.createClient(...) is called for an account that exists; the INSERT
\* reaches the database later.
createClientCalled(choices) ==
  /\ impl = "db"
  /\ \E userId \in DOMAIN users, data \in choices :
       pending' = pending \cup
          {[op |-> "createClient", call |-> NextCall,
            configData |-> [f \in (DOMAIN data) \cup {"userId"} |->
                             IF f = "userId" THEN userId ELSE data[f]]]}
  /\ UNCHANGED <<impl, nextToken, resets, now, user, isLoading, location, last, users, clients, campaigns,
                 emailConfigurations, nextUserId, nextClientId, nextCampaignId,
                 nextEmailConfigId>>

\* The one statement of DatabaseStorage.createClient.
createClientInsert ==
  \E p \in pending :
     /\ p.op = "createClient"
     /\ StepOfCall("createClient", nextClientId, p.configData.userId, p.configData,
                   DbCreateClient(Store, p.configData))
     /\ pending' = pending \ {p}

\* storage.createCampaign(...) is called for an account that exists.
createCampaignCalled(choices) ==
  /\ impl = "db"
  /\ \E userId \in DOMAIN users, data \in choices :
       pending' = pending \cup
          {[op |-> "createCampaign", call |-> NextCall,
            configData |-> [f \in (DOMAIN data) \cup {"userId"} |->
                             IF f = "userId" THEN userId ELSE data[f]]]}
  /\ UNCHANGED <<impl, nextToken, resets, now, user, isLoading, location, last, users, clients, campaigns,
                 emailConfigurations, nextUserId, nextClientId, nextCampaignId,
                 nextEmailConfigId>>

\* The one statement of DatabaseStorage.createCampaign.
createCampaignInsert ==
  \E p \in pending :
     /\ p.op = "createCampaign"
     /\ StepOfCall("createCampaign", nextCampaignId, p.configData.userId, p.configData,
                   DbCreateCampaign(Store, p.configData))
     /\ pending' = pending \ {p}

\* The statement-th awaited statement of DatabaseStorage.deleteUserById.
DbDeleteUserByIdStatement(s, id, statement) ==
  CASE statement = 1 ->
         Ret([s EXCEPT !.clients = Without(s.clients, OwnedBy(s.clients, id))],
             NotFound, TRUE, 0)
    [] statement = 2 ->
         Ret([s EXCEPT !.campaigns = Without(s.campaigns, OwnedBy(s.campaigns, id))],
             NotFound, TRUE, 0)
    [] statement = 3 ->
         Ret([s EXCEPT !.emailConfigurations =
                           Without(s.emailConfigurations, OwnedBy(s.emailConfigurations, id))],
             NotFound, TRUE, 0)
    [] OTHER ->
         IF id \in DOMAIN s.users /\ StillReferenced(s, {id}) THEN Threw(s)
         ELSE Ret([s EXCEPT !.users = Without(s.users, {id})],
                  NotFound, id \in DOMAIN s.users, 0)

\* storage.deleteUserById(id) is called on DatabaseStorage; one call per account
\* is in flight.
deleteUserByIdCalled ==
  /\ impl = "db"
  /\ \E id \in DOMAIN users :
       /\ \A p \in pending : p.op = "deleteUserById" => p.id # id
       /\ pending' = pending \cup
            {[op |-> "deleteUserById", call |-> NextCall, id |-> id, statement |-> 1]}
  /\ UNCHANGED <<impl, nextToken, resets, now, user, isLoading, location, last, users, clients, campaigns,
                 emailConfigurations, nextUserId, nextClientId, nextCampaignId,
                 nextEmailConfigId>>

\* Its next statement runs; a rejected statement ends the call.
deleteUserByIdStatement ==
  \E p \in pending :
     /\ p.op = "deleteUserById"
     /\ LET r == DbDeleteUserByIdStatement(Store, p.id, p.statement)
        IN /\ StepOfCall(IF p.statement = 4 \/ r.threw THEN "deleteUserById"
                         ELSE "deleteUserById: statement",
                         p.id, 0, NoData, r)
           /\ pending' = (pending \ {p}) \cup
                 (IF p.statement = 4 \/ r.threw THEN {}
                  ELSE {[p EXCEPT !.statement = p.statement + 1]})

\* MemStorage methods, which have no await.
createClientAtOnce(choices) == impl = "mem" /\ createClient(choices)
createCampaignAtOnce(choices) == impl = "mem" /\ createCampaign(choices)
deleteUserByIdAtOnce == impl = "mem" /\ deleteUserById

\* The same requests with fewer accounts and more tokens: an account asks for a
\* token again while it holds one.
NextTokens ==
  \/ nextUserId <= TokenUsers /\ createUser({Registration(nextUserId)})
  \/ nextEmailConfigId = 1 /\ createEmailConfiguration(ResetEmailConfigInputs)
  \/ Tick
  \/ nextToken <= TokenCount /\ ForgotPasswordRoute
  \/ Cardinality(pending) < MaxPending /\ ResetPasswordRoute
  \/ ResetPasswordUpdateUser
  \/ ResetPasswordClearToken

SpecTokens == Init /\ [][NextTokens]_vars

(***************************************************************************)
(* The repository calls: accounts register themselves and work on their    *)
(* clients, campaigns and email configurations.  The methods of one child  *)
(* table neither read nor write another table, and a run creates rows in   *)
(* one of the three.                                                       *)
(***************************************************************************)

\* The storage methods read no column of a campaign but id, userId and
\* createdAt: these runs create campaigns from one input.
StoreCampaignInputs == {d \in CampaignInputs : "subject" \notin DOMAIN d}

NextStore ==
  \/ nextUserId <= StoreUsers /\ createUser({Registration(nextUserId)})
  \/ OnlyClients /\ getClients(SearchTerms)
  \/ OnlyClients /\ getClient
  \/ OnlyClients /\ nextClientId <= StoreRows /\ createClient(ClientInputs)
  \/ OnlyClients /\ updateClient
  \/ OnlyClients /\ deleteClient
  \/ OnlyCampaigns /\ getCampaigns
  \/ OnlyCampaigns /\ getCampaign
  \/ OnlyCampaigns /\ nextCampaignId <= StoreRows /\ createCampaign(StoreCampaignInputs)
  \/ OnlyCampaigns /\ updateCampaign
  \/ OnlyCampaigns /\ deleteCampaign
  \/ OnlyEmailConfigurations /\ getEmailConfiguration
  \/ OnlyEmailConfigurations /\ nextEmailConfigId <= StoreRows /\ createEmailConfiguration(EmailConfigInputs)
  \/ OnlyEmailConfigurations /\ updateEmailConfiguration(EmailConfigUpdates)
  \/ OnlyEmailConfigurations /\ deleteEmailConfiguration

SpecStore == Init /\ [][NextStore]_vars

\* Accounts store clients and search them.
NextSearch ==
  \/ nextUserId <= SearchUsers /\ createUser({Registration(nextUserId)})
  \/ nextClientId <= SearchRows /\ createClient(SearchClientInputs)
  \/ getClients(SearchQueries)

SpecSearch == Init /\ [][NextSearch]_vars

(***************************************************************************)
(* Account administration: accounts register, own rows in the three child  *)
(* tables, and are deleted one at a time or all but one.                   *)
(***************************************************************************)
\* The child rows created so far, over the three tables.
RowsCreated == (nextClientId - 1) + (nextCampaignId - 1) + (nextEmailConfigId - 1)

AdminClientInputs == {d \in ClientInputs : "city" \in DOMAIN d}
AdminCampaignInputs == {d \in CampaignInputs : d.type = "email"}
AdminEmailConfigInputs == {d \in EmailConfigInputs : "isActive" \notin DOMAIN d}

NextAdmin ==
  \/ nextUserId <= AdminUsers /\ createUser({Registration(nextUserId)})
  \/ RowsCreated < AdminRows /\ createClient(AdminClientInputs)
  \/ RowsCreated < AdminRows /\ createCampaign(AdminCampaignInputs)
  \/ RowsCreated < AdminRows /\ createEmailConfiguration(AdminEmailConfigInputs)
  \/ deleteUserById
  \/ deleteAllUsersExceptAdmin

SpecAdmin == Init /\ [][NextAdmin]_vars

\* Accounts with rows are deleted by an administrator, over a database that may
\* reject a statement.
NextDelete ==
  \/ nextUserId <= DeleteUsers /\ createUser({Registration(nextUserId)})
  \/ RowsCreated < DeleteRows /\ createClient(AdminClientInputs)
  \/ RowsCreated < DeleteRows /\ createCampaign(AdminCampaignInputs)
  \/ RowsCreated < DeleteRows /\ createEmailConfiguration(AdminEmailConfigInputs)
  \/ deleteUserById
  \/ deleteUserByIdRejected

SpecDelete == Init /\ [][NextDelete]_vars

\* Create calls begun and not finished.
CreatesInFlight == Cardinality({p \in pending : p.op # "deleteUserById"})

\* Accounts are deleted while rows are created for them.
NextOrphans ==
  \/ nextUserId <= OrphanUsers /\ createUser({Registration(nextUserId)})
  \/ RowsCreated < OrphanRows /\ createClientAtOnce(AdminClientInputs)
  \/ RowsCreated < OrphanRows /\ createCampaignAtOnce(AdminCampaignInputs)
  \/ RowsCreated < OrphanRows /\ createEmailConfigurationAtOnce(AdminEmailConfigInputs)
  \/ deleteUserByIdAtOnce
  \/ RowsCreated + CreatesInFlight < OrphanRows /\ createClientCalled(AdminClientInputs)
  \/ createClientInsert
  \/ RowsCreated + CreatesInFlight < OrphanRows /\ createCampaignCalled(AdminCampaignInputs)
  \/ createCampaignInsert
  \/ /\ RowsCreated + CreatesInFlight < OrphanRows
     /\ createEmailConfigurationUpdate(AdminEmailConfigInputs)
  \/ createEmailConfigurationInsert
  \/ deleteUserByIdCalled
  \/ deleteUserByIdStatement

SpecOrphans == Init /\ [][NextOrphans]_vars

\* Accounts are made and changed, by registration and by an administrator.
NextAccounts ==
  \/ nextUserId <= AccountUsers /\ createUser(AccountRegistrations(nextUserId))
  \/ nextUserId <= AccountUsers /\ createUserByAdmin(AccountAdminData(nextUserId))
  \/ updateUserByAdmin(AccountAdminUpdates)
  \/ updateUser

SpecAccounts == Init /\ [][NextAccounts]_vars

(***************************************************************************)
(* Tenant isolation.                                                       *)
(***************************************************************************)
\* The call just made named by id a row of tbl that another account owns.
NamesForeignRow(tbl, ops) ==
  /\ last'.op \in ops
  /\ last'.id \in DOMAIN tbl
  /\ tbl[last'.id].userId # last'.userId

\* The call resolved to the not-found value and left the row as it was.
RefusedAndUntouched(tbl, tblAfter) ==
  /\ last'.rows = NotFound
  /\ last'.ok = FALSE
  /\ ~last'.threw
  /\ last'.id \in DOMAIN tblAfter
  /\ tblAfter[last'.id] = tbl[last'.id]

\* C1: for accounts A # B and a Client, Campaign or Email Configuration row r of
\* B, getX(r.id, A), updateX(r.id, A, data) and deleteX(r.id, A) return the
\* not-found value and leave r present and unchanged, in MemStorage and in
\* DatabaseStorage; getEmailConfiguration(A), which takes no id, never hands out
\* a row of B.
C1_TenantIsolation ==
  [][ /\ NamesForeignRow(clients, {"getClient", "updateClient", "deleteClient"})
         => RefusedAndUntouched(clients, clients')
      /\ NamesForeignRow(campaigns, {"getCampaign", "updateCampaign", "deleteCampaign"})
         => RefusedAndUntouched(campaigns, campaigns')
      /\ NamesForeignRow(emailConfigurations,
                         {"updateEmailConfiguration", "deleteEmailConfiguration"})
         => RefusedAndUntouched(emailConfigurations, emailConfigurations')
      /\ last'.op = "getEmailConfiguration"
         => \A i \in 1..Len(last'.rows) : last'.rows[i].userId = last'.userId
    ]_vars

\* An update of a client of another account was refused by DatabaseStorage.
C1_Witness ==
  /\ impl = "db"
  /\ last.op = "updateClient"
  /\ last.id \in DOMAIN clients
  /\ clients[last.id].userId # last.userId
  /\ last.rows = NotFound

\* C2: getClients(A, search?) and getCampaigns(A) return only rows whose userId
\* is A, and the list of an account that owns no client is empty whatever the
\* other accounts own.
C2_ListingOwnerScoped ==
  /\ last.op \in {"getClients", "getCampaigns"}
     => \A i \in 1..Len(last.rows) : last.rows[i].userId = last.userId
  /\ (last.op = "getClients" /\ OwnedBy(clients, last.userId) = {}) => last.rows = <<>>
  /\ (last.op = "getCampaigns" /\ OwnedBy(campaigns, last.userId) = {}) => last.rows = <<>>

\* An account that owns no client listed its clients while another account's
\* client was stored, and got the empty list.
C2_Witness ==
  /\ last.op = "getClients"
  /\ OwnedBy(clients, last.userId) = {}
  /\ clients # Empty
  /\ last.rows = <<>>

(***************************************************************************)
(* One active email configuration per account.                             *)
(***************************************************************************)
\* The configuration created asks to be active: isActive is true or left out.
AsksActive(data) == Field(data, "isActive", TRUE)

\* getEmailConfiguration(userId) resolves to exactly the row id.
GetsConfiguration(s, userId, id) ==
  IF impl = "mem"
  THEN MemGetEmailConfiguration(s, userId) = <<s.emailConfigurations[id]>>
  ELSE DbGetEmailConfiguration(s, userId) = {<<s.emailConfigurations[id]>>}

\* C6: when an account that already has an active Email Configuration creates
\* another active one, then right after createEmailConfiguration returns exactly
\* one row of the account has isActive = true, it is the row just created, and
\* getEmailConfiguration(account) returns it.
C6_SecondActiveDeactivatesPrevious ==
  [][ ( /\ last'.op = "createEmailConfiguration"
        /\ AsksActive(last'.data)
        /\ ActiveConfigs(emailConfigurations, last'.userId) # {} )
      => /\ ~last'.threw
         /\ ActiveConfigs(emailConfigurations', last'.userId) = {last'.id}
         /\ last'.rows = <<emailConfigurations'[last'.id]>>
         /\ GetsConfiguration(Store', last'.userId, last'.id)
    ]_vars

\* An account with an active configuration created a second active one, and the
\* earlier row is stored inactive.
C6_Witness ==
  /\ last.op = "createEmailConfiguration"
  /\ AsksActive(last.data)
  /\ last.before >= 1
  /\ \E k \in OwnedBy(emailConfigurations, last.userId) :
        k # last.id /\ ~emailConfigurations[k].isActive

\* C7: in every state reached by createEmailConfiguration,
\* updateEmailConfiguration and deleteEmailConfiguration calls, each account has
\* at most one Email Configuration row with isActive = true.
C7_AtMostOneActive ==
  \A uid \in DOMAIN users : Cardinality(ActiveConfigs(emailConfigurations, uid)) <= 1

(***************************************************************************)
(* The capability check.                                                   *)
(***************************************************************************)
\* C3: hasPermission is true for every capability name, known or unknown, when
\* the logged-in account's role is admin, whatever its two flags are.
C3_AdminHasEveryPermission ==
  (last.op = "hasPermission" /\ user # <<>> /\ user[1].role = "admin") => last.ok

\* An admin whose flags are both false asked for an unknown capability.
C3_Witness ==
  /\ last.op = "hasPermission"
  /\ user # <<>>
  /\ user[1].role = "admin"
  /\ ~user[1].canAccessMaladireta
  /\ ~user[1].canAccessEmailConfig
  /\ last.data.permission = "reports"
  /\ last.ok

\* C4: for a non-admin account hasPermission is exactly canAccessMaladireta for
\* the direct-mail capability, exactly canAccessEmailConfig for the email-config
\* capability, false for account management and false for an unknown name; with
\* no logged-in user it is false for every capability.
C4_NonAdminPermissions ==
  last.op = "hasPermission" =>
    /\ user = <<>> => ~last.ok
    /\ (user # <<>> /\ user[1].role # "admin") =>
         /\ last.data.permission = "maladireta" => last.ok = user[1].canAccessMaladireta
         /\ last.data.permission = "emailConfig" => last.ok = user[1].canAccessEmailConfig
         /\ last.data.permission \notin {"maladireta", "emailConfig"} => ~last.ok

\* An account the admin created with canAccessEmailConfig = false and direct mail
\* allowed asked for the email-config capability and was denied.
C4_Witness ==
  /\ last.op = "hasPermission"
  /\ user # <<>>
  /\ user[1].role = "user"
  /\ user[1].canAccessMaladireta
  /\ ~user[1].canAccessEmailConfig
  /\ last.data.permission = "emailConfig"
  /\ ~last.ok

\* C5: an authenticated non-admin account whose canAccessMaladireta is false gets
\* 403 from every campaign route (list, create, update, delete, send).
C5_CampaignRoutesForbidden ==
  ( /\ last.op \in CampaignRoutes
    /\ last.userId \in DOMAIN users
    /\ users[last.userId].role # "admin"
    /\ ~users[last.userId].canAccessMaladireta )
  => last.status = 403


(***************************************************************************)
(* Deleting accounts.                                                      *)
(***************************************************************************)
\* The rows of tbl that uid does not own are in tblAfter as they were, and
\* tblAfter holds nothing else.
OnlyRowsOfRemoved(tbl, tblAfter, uids) ==
  tblAfter = Without(tbl, {k \in DOMAIN tbl : tbl[k].userId \in uids})

\* Some child row names an account that does not exist.
Orphans(accounts, tbl) == {k \in DOMAIN tbl : tbl[k].userId \notin DOMAIN accounts}

\* C8: after deleteUserById(id) no client, campaign or email configuration of
\* id remains and the account id is gone, the rows and accounts of every other
\* user are as before, and the call returns true iff the account existed.
C8_DeleteUserCascades ==
  [][last'.op = "deleteUserById" =>
       /\ ~last'.threw
       /\ OwnedBy(clients', last'.id) = {}
       /\ OwnedBy(campaigns', last'.id) = {}
       /\ OwnedBy(emailConfigurations', last'.id) = {}
       /\ last'.id \notin DOMAIN users'
       /\ users' = Without(users, {last'.id})
       /\ OnlyRowsOfRemoved(clients, clients', {last'.id})
       /\ OnlyRowsOfRemoved(campaigns, campaigns', {last'.id})
       /\ OnlyRowsOfRemoved(emailConfigurations, emailConfigurations', {last'.id})
       /\ last'.ok = (last'.id \in DOMAIN users)]_vars

\* An account that owned rows was deleted, and another account's row is left.
C8_Witness ==
  /\ last.op = "deleteUserById"
  /\ last.ok
  /\ last.before >= 1
  /\ \E k \in DOMAIN campaigns : campaigns[k].userId \in DOMAIN users

\* C9: deleteAllUsersExceptAdmin(adminId) removes neither the account adminId
\* nor a client, campaign or email configuration it owns, and what it returns
\* is the number of accounts removed, the accounts other than adminId before
\* the call.
C9_DeleteAllSparesAdmin ==
  [][last'.op = "deleteAllUsersExceptAdmin" =>
       /\ last'.id \in DOMAIN users'
       /\ users'[last'.id] = users[last'.id]
       /\ \A k \in OwnedBy(clients, last'.id) :
             k \in DOMAIN clients' /\ clients'[k] = clients[k]
       /\ \A k \in OwnedBy(campaigns, last'.id) :
             k \in DOMAIN campaigns' /\ campaigns'[k] = campaigns[k]
       /\ \A k \in OwnedBy(emailConfigurations, last'.id) :
             k \in DOMAIN emailConfigurations'
               /\ emailConfigurations'[k] = emailConfigurations[k]
       /\ ~last'.threw =>
             /\ last'.count = Cardinality((DOMAIN users) \ (DOMAIN users'))
             /\ last'.count = Cardinality((DOMAIN users) \ {last'.id})]_vars

\* Two accounts were removed and the admin's own row is still there.
C9_Witness ==
  /\ last.op = "deleteAllUsersExceptAdmin"
  /\ ~last.threw
  /\ last.count >= 2
  /\ last.id \in DOMAIN users
  /\ OwnedBy(clients, last.id) # {}

\* C10: deleteAllUsersExceptAdmin, called with two or more accounts other than
\* adminId, completes having applied the cascade to each of them: the accounts
\* are removed, none of their rows is left, and no child row names an account
\* that does not exist.
C10_DeleteAllCascadesEveryAccount ==
  [][(last'.op = "deleteAllUsersExceptAdmin" /\ last'.before >= 2) =>
       /\ ~last'.threw
       /\ DOMAIN users' = {last'.id}
       /\ OnlyRowsOfRemoved(clients, clients', (DOMAIN users) \ {last'.id})
       /\ OnlyRowsOfRemoved(campaigns, campaigns', (DOMAIN users) \ {last'.id})
       /\ OnlyRowsOfRemoved(emailConfigurations, emailConfigurations',
                            (DOMAIN users) \ {last'.id})
       /\ Orphans(users', clients') = {}
       /\ Orphans(users', campaigns') = {}
       /\ Orphans(users', emailConfigurations') = {}]_vars


(***************************************************************************)
(* The password-reset flow.                                                *)
(***************************************************************************)
\* Some account stores token and its expiry has not passed.
TokenUsable(accounts, token) ==
  \E id \in DOMAIN accounts :
     /\ accounts[id].resetToken = <<token>>
     /\ accounts[id].resetTokenExpiry # <<>>
     /\ now <= accounts[id].resetTokenExpiry[1]

\* A POST /api/reset-password with a token and a new password has just arrived.
ResetArrived ==
  /\ now' = now
  /\ last'.op = "POST /api/reset-password"
  /\ last'.data.token # 0
  /\ last'.data.newPassword # <<>>

\* A POST /api/reset-password has just been answered 200.
ResetAnswered ==
  /\ now' = now
  /\ last'.op \in {"reset-password: updateUser", "reset-password: clearPasswordResetToken"}
  /\ last'.status = 200

\* C11: POST /api/reset-password is answered 400 "invalid or expired token", and
\* no account changes, when no account stores the token or the expiry of the
\* account that stores it has passed; with a stored, unexpired token the request
\* goes on to store the hash of the new password, and when it is answered 200
\* the account has that hash and neither resetToken nor resetTokenExpiry; a
\* request with a token that a reset was answered 200 for is answered 400.
C11_ResetTokenLifecycle ==
  [][ /\ (ResetArrived /\ ~TokenUsable(users, last'.data.token))
         => /\ last'.status = 400
            /\ last'.rows = MsgInvalidToken
            /\ users' = users
            /\ pending' = pending
      /\ (ResetArrived /\ TokenUsable(users, last'.data.token))
         => /\ last'.status = 0
            /\ users' = users
            /\ \E p \in pending' :
                  /\ p.token = last'.data.token
                  /\ p.password = hashPassword(last'.data.newPassword)
                  /\ users[p.userId].resetToken = <<p.token>>
      /\ ResetAnswered
         => /\ users'[last'.id].password = last'.data.password
            /\ users'[last'.id].resetToken = <<>>
            /\ users'[last'.id].resetTokenExpiry = <<>>
      /\ (ResetArrived /\ last'.data.token \in resets.completed)
         => (last'.status = 400 /\ last'.rows = MsgInvalidToken)
    ]_vars

\* A reset was answered 200 and a later request with the same token was refused,
\* with the account keeping the hash of the new password.
C11_Witness ==
  /\ last.op = "POST /api/reset-password"
  /\ last.data.token \in resets.completed
  /\ last.data.newPassword # <<>>
  /\ last.status = 400
  /\ last.rows = MsgInvalidToken
  /\ \E id \in DOMAIN users :
        users[id].password = hashPassword(<<"n">>) /\ users[id].resetToken = <<>>

\* C12: in no reachable state has a reset replaced the password of an account
\* while the token of that reset is still stored by the account and usable.
C12_ResetAtomic ==
  \A id \in DOMAIN users :
     ~ /\ users[id].resetToken # <<>>
       /\ users[id].resetToken[1] \in resets.replaced
       /\ TokenUsable(users, users[id].resetToken[1])

\* C13: POST /api/forgot-password with an email answers 200 with the one
\* "if the email exists" message, whether or not the email is that of an
\* account, whatever the account's email configuration and the outcome of the
\* send.
C13_ForgotPasswordSameResponse ==
  (last.op = "POST /api/forgot-password" /\ last.data.email # <<>>)
    => (last.status = 200 /\ last.rows = MsgIfEmailExists)

\* C14: a request to a client route or a campaign route that carries no
\* authenticated session is answered 401 with no row in the body, and leaves
\* every table and every id counter as it was.
C14_UnauthenticatedRefused ==
  [][ (last'.op \in ClientRoutes \cup CampaignRoutes /\ ~isAuthenticated(last'.userId))
        => /\ last'.status = 401
           /\ last'.rows = NotFound
           /\ Store' = Store
    ]_vars

\* A request without a session named an existing client of some account and was
\* answered 401; the client is still there.
C14_Witness ==
  /\ last.op = "DELETE /api/clients/:id"
  /\ last.userId = 0
  /\ last.id \in DOMAIN clients
  /\ last.status = 401

\* The routes that create a row.
CreatingRoutes == {"POST /api/clients", "POST /api/campaigns"}

\* C15: the row a POST /api/clients or POST /api/campaigns creates is new, is
\* the row of the response, and has the requester as its userId, whatever
\* userId or id the body carries.
C15_CreatedRowOwnedByRequester ==
  [][ (last'.op \in CreatingRoutes /\ last'.status = 201)
        => LET before == IF last'.op = "POST /api/clients" THEN clients ELSE campaigns
               after == IF last'.op = "POST /api/clients" THEN clients' ELSE campaigns'
           IN /\ last'.id \notin DOMAIN before
              /\ DOMAIN after = (DOMAIN before) \cup {last'.id}
              /\ after[last'.id].userId = last'.userId
              /\ last'.rows = <<after[last'.id]>>
              /\ "id" \in DOMAIN last'.data => last'.id # last'.data.id
    ]_vars

\* A client was created from a body that names another account as userId and
\* carries an id; the row belongs to the requester.
C15_Witness ==
  /\ last.op = "POST /api/clients"
  /\ last.status = 201
  /\ "userId" \in DOMAIN last.data
  /\ last.data.userId \in (DOMAIN users) \ {last.userId}
  /\ "id" \in DOMAIN last.data
  /\ last.id \in DOMAIN clients
  /\ clients[last.id].userId = last.userId

\* C16: a request that is answered with a status from 400 to 499 leaves every
\* table and every id counter as it was; a refused POST /api/forgot-password in
\* particular leaves resetToken and resetTokenExpiry of every account alone.
C16_ClientErrorChangesNothing ==
  [][ (last'.status >= 400 /\ last'.status <= 499) => Store' = Store ]_vars

\* The routes that name one row of the requester by id.
RowRoutes ==
  {"PUT /api/clients/:id", "DELETE /api/clients/:id", "PUT /api/campaigns/:id",
   "DELETE /api/campaigns/:id", "POST /api/campaigns/:id/send"}

\* The request that has just been answered came with a session and a numeric
\* id, and before it no row with that id existed (absent) or the row belonged
\* to another account (foreign).
NamesNoOwnRow(absent, foreign) ==
  /\ last'.op \in RowRoutes
  /\ isAuthenticated(last'.userId)
  /\ last'.id # NaN
  /\ LET tbl == IF last'.op \in ClientRoutes THEN clients ELSE campaigns
     IN \/ absent /\ last'.id \notin DOMAIN tbl
        \/ foreign /\ last'.id \in DOMAIN tbl /\ tbl[last'.id].userId # last'.userId

\* The status such a request is refused with, which depends on the request
\* alone: 400 for a body the route rejects, 404 otherwise.
RefusalStatus(op, body) ==
  IF \/ op = "PUT /api/clients/:id" /\ insertClientSchemaPartialParse(body) = <<>>
     \/ op = "PUT /api/campaigns/:id" /\ insertCampaignSchemaPartialParse(body) = <<>>
     \/ /\ op = "POST /api/campaigns/:id/send"
        /\ (~body.clientIds.isArray \/ Len(body.clientIds.items) = 0)
  THEN 400
  ELSE 404

\* C20: a PUT or DELETE of a client or campaign, or a POST send of a campaign,
\* whose id names no row gets the same status and body as one whose id names
\* a row of another account (both get what the request alone determines: 404,
\* or 400 for a rejected body, with no row in the body), and either way every
\* table and id counter stays as it was.
C20_NotFoundLikeForeign ==
  [][ NamesNoOwnRow(TRUE, TRUE)
        => /\ last'.status = RefusalStatus(last'.op, last'.data)
           /\ last'.rows = NotFound
           /\ Store' = Store
    ]_vars

\* A DELETE named a campaign of another account and was answered 404; the
\* campaign is still there.
C20_Witness ==
  /\ last.op = "DELETE /api/campaigns/:id"
  /\ last.status = 404
  /\ last.id \in DOMAIN campaigns
  /\ isAuthenticated(last.userId)
  /\ campaigns[last.id].userId # last.userId

\* The operations an account reaches without an administrator: registration
\* and the steps of the forgot-password and reset-password requests.
SelfServiceOps ==
  {"createUser", "POST /api/forgot-password", "POST /api/reset-password",
   "reset-password: updateUser", "reset-password: clearPasswordResetToken"}

C18_UniqueUsernameAndEmail ==
  \A a, b \in DOMAIN users :
     a # b => (users[a].username # users[b].username /\ users[a].email # users[b].email)

\* C19: deleteUserById is all or nothing: after a call for an existing account,
\* also one in which a statement fails, either the account and all the clients,
\* campaigns and email configurations that name it are gone, or every table is
\* as it was before the call.
C19_DeleteUserAllOrNothing ==
  [][ (last'.op = "deleteUserById" /\ last'.id \in DOMAIN users)
        => \/ /\ users' = users
              /\ clients' = clients
              /\ campaigns' = campaigns
              /\ emailConfigurations' = emailConfigurations
           \/ /\ last'.id \notin DOMAIN users'
              /\ OwnedBy(clients', last'.id) = {}
              /\ OwnedBy(campaigns', last'.id) = {}
              /\ OwnedBy(emailConfigurations', last'.id) = {}
    ]_vars

\* C23: POST /api/campaigns/:id/send changes no table and no id counter; with a
\* session it answers 400 when the id is no number or clientIds is not a
\* non-empty array, whether or not the campaign exists; 404 when the requester
\* owns no campaign with the id; and otherwise 200 with the id of the campaign
\* and recipientCount equal to the length of clientIds.
C23_SendIsStub ==
  [][ last'.op = "POST /api/campaigns/:id/send"
        => /\ Store' = Store
           /\ isAuthenticated(last'.userId)
              => LET clientIds == last'.data.clientIds
                     owned == /\ last'.id \in DOMAIN campaigns
                              /\ campaigns[last'.id].userId = last'.userId
                 IN IF last'.id = NaN \/ ~clientIds.isArray \/ Len(clientIds.items) = 0
                    THEN last'.status = 400 /\ last'.rows = NotFound
                    ELSE IF ~owned
                    THEN last'.status = 404 /\ last'.rows = NotFound
                    ELSE /\ last'.status = 200
                         /\ last'.rows = <<[campaignId |-> last'.id,
                                             recipientCount |-> Len(clientIds.items)]>>
    ]_vars

\* A send of an own campaign to two clients was answered 200 with
\* recipientCount 2, and the campaign is as it was stored.
C23_Witness ==
  /\ last.op = "POST /api/campaigns/:id/send"
  /\ last.status = 200
  /\ Len(last.data.clientIds.items) = 2
  /\ last.rows[1].recipientCount = 2
  /\ last.id \in DOMAIN campaigns
  /\ campaigns[last.id].userId = last.userId

\* The field contains q as a substring when case is ignored; a null field
\* contains nothing.
ContainsIgnoringCase(field, q) ==
  field # <<>> /\ includes(toLowerCase(field[1]), toLowerCase(q))

\* The ids of the clients of owner that the search for q is to return.
SearchResult(owner, q) ==
  {k \in OwnedBy(clients, owner) :
     q # <<>> => \/ ContainsIgnoringCase(<<clients[k].name>>, q)
                \/ ContainsIgnoringCase(<<clients[k].email>>, q)
                \/ ContainsIgnoringCase(clients[k].cpfCnpj, q)
                \/ ContainsIgnoringCase(clients[k].mobilePhone, q)
                \/ ContainsIgnoringCase(clients[k].landlinePhone, q)
                \/ ContainsIgnoringCase(clients[k].city, q)
                \/ ContainsIgnoringCase(clients[k].businessArea, q)}

\* C24: getClients(owner, q) returns exactly the owner's clients of which one of
\* name, email, cpfCnpj, mobilePhone, landlinePhone, city, businessArea contains
\* q as a substring, case ignored (all of the owner's clients when q is empty),
\* in MemStorage and in DatabaseStorage alike.
C24_SearchResult ==
  last.op = "getClients"
    => {last.rows[i].id : i \in 1..Len(last.rows)} = SearchResult(last.userId, last.data.search)

\* Every row of tbl that is still there after the step names the account it
\* named before.
OwnerKept(tbl, tblAfter) ==
  \A id \in (DOMAIN tbl) \cap DOMAIN tblAfter : tblAfter[id].userId = tbl[id].userId

\* C26: over every step (a PUT with any body the validation lets through, and
\* every other request or call) each client, campaign and email configuration
\* keeps the userId it has; ids are not given out twice, so a row keeps the
\* userId it was created with for as long as it exists.
C26_OwnerNeverChanges ==
  [][ /\ OwnerKept(clients, clients')
      /\ OwnerKept(campaigns, campaigns')
      /\ OwnerKept(emailConfigurations, emailConfigurations')
      /\ nextClientId' >= nextClientId /\ \A id \in DOMAIN clients' : id < nextClientId'
      /\ nextCampaignId' >= nextCampaignId /\ \A id \in DOMAIN campaigns' : id < nextCampaignId'
      /\ nextEmailConfigId' >= nextEmailConfigId
      /\ \A id \in DOMAIN emailConfigurations' : id < nextEmailConfigId'
    ]_vars

\* A PUT whose body names another account as userId changed the name of a
\* client of the requester, and the client is still the requester's.
C26_Witness ==
  /\ last.op = "PUT /api/clients/:id"
  /\ last.status = 200
  /\ "userId" \in DOMAIN last.data
  /\ last.data.userId \in (DOMAIN users) \ {last.userId}
  /\ last.id \in DOMAIN clients
  /\ clients[last.id].name = last.data.name
  /\ clients[last.id].userId = last.userId

\* The account differs from what it was in at most the fields named.
ChangedOnly(before, after, fields) ==
  \A f \in (DOMAIN before) \ fields : after[f] = before[f]

\* A POST /api/forgot-password has just found an account and stored a token.
TokenIssued == now' = now /\ nextToken' = nextToken + 1

ForgotArrived ==
  /\ now' = now
  /\ last'.op = "POST /api/forgot-password"
  /\ last'.data.email # <<>>

\* C28: a forgot-password request with an email of no account leaves every
\* table, id counter and token as it was; one with the email of an account
\* stores a token whose expiry is the time of the request plus one hour; and a
\* reset-password request with a stored token is accepted at every time up to
\* and including the expiry and refused with 400 at every later time.
C28_TokenLastsOneHour ==
  [][ /\ (ForgotArrived /\ \A id \in DOMAIN users : users[id].email # last'.data.email)
         => (Store' = Store /\ nextToken' = nextToken /\ pending' = pending)
      /\ (ForgotArrived /\ \E id \in DOMAIN users : users[id].email = last'.data.email)
         => \E id \in DOMAIN users :
               /\ users[id].email = last'.data.email
               /\ users'[id].resetToken # <<>>
               /\ users'[id].resetTokenExpiry = <<now + TokenLifetime>>
      /\ ResetArrived
         => \A id \in DOMAIN users :
               (users[id].resetToken = <<last'.data.token>> /\ users[id].resetTokenExpiry # <<>>)
                 => IF now <= users[id].resetTokenExpiry[1]
                    THEN /\ last'.status = 0
                         /\ last'.id = id
                         /\ \E p \in pending' :
                               /\ p.userId = id
                               /\ p.token = last'.data.token
                               /\ p.pc = "hashPassword"
                    ELSE last'.status = 400 /\ users' = users /\ pending' = pending
    ]_vars

\* A reset-password request arrived at the very instant its token expires, one
\* hour after the token was issued, and was accepted.
C28_Witness ==
  /\ last.op = "POST /api/reset-password"
  /\ last.status = 0
  /\ last.id \in DOMAIN users
  /\ users[last.id].resetToken = <<last.data.token>>
  /\ users[last.id].resetTokenExpiry = <<now>>
  /\ now = TokenLifetime

\* The configData that createEmailConfiguration was just called with.
ConfigDataOfCall ==
  [f \in (DOMAIN last'.data) \cup {"userId"} |->
     IF f = "userId" THEN last'.userId ELSE last'.data[f]]

\* C29: createEmailConfiguration for an account that has an active
\* configuration, called with isActive false or without isActive, ends in the
\* state MemStorage ends in and in the state DatabaseStorage ends in, which are
\* the same, and in it exactly one row of the account is active.
C29_CreateLeavesOneActive ==
  [][ ( /\ last'.op = "createEmailConfiguration"
        /\ ~Field(last'.data, "isActive", FALSE)
        /\ ActiveConfigs(emailConfigurations, last'.userId) # {} )
      => /\ ~last'.threw
         /\ Store' = MemCreateEmailConfiguration(Store, ConfigDataOfCall).s
         /\ Store' = DbCreateEmailConfiguration(Store, ConfigDataOfCall).s
         /\ Cardinality(ActiveConfigs(emailConfigurations', last'.userId)) = 1
    ]_vars

\* C21: whatever createEmailConfiguration and getEmailConfiguration calls
\* overlap, in every state a read may find, no account has two active
\* configurations, and an account that has a configuration (every one is
\* created active here) has an active one.
C21_CreateEmailConfigurationAtomic ==
  \A uid \in DOMAIN users :
     /\ Cardinality(ActiveConfigs(emailConfigurations, uid)) <= 1
     /\ OwnedBy(emailConfigurations, uid) # {} => ActiveConfigs(emailConfigurations, uid) # {}

\* C22: when no createClient, createCampaign, createEmailConfiguration or
\* deleteUserById call is in flight, every client, campaign and email
\* configuration names an existing account.
C22_NoOrphansAfterOverlap ==
  pending = {} =>
     /\ Orphans(users, clients) = {}
     /\ Orphans(users, campaigns) = {}
     /\ Orphans(users, emailConfigurations) = {}

\* A row was inserted for the account between the child deletes and the delete
\* of the account, which the database then refused.
C22_Witness ==
  /\ impl = "db"
  /\ pending = {}
  /\ last.op = "deleteUserById"
  /\ last.threw
  /\ last.id \in DOMAIN users
  /\ ChildRows(last.id) > 0

\* What the visitor sees at the current path.
Shown == Router(location, user, isLoading)

\* C25: the children of a ProtectedRoute are shown only when loading has
\* finished, a user is present and no permission is required or hasPermission
\* grants it, and the content of /user-management only to an administrator;
\* the effect sends a visitor without a user to /auth, who sees nothing, and a
\* user without the permission to /, who sees no children.
C25_ProtectedRouteGuards ==
  /\ [](location \in ProtectedPaths =>
         /\ Shown = Children(location, user) =>
               /\ ~isLoading
               /\ user # <<>>
               /\ \/ RequirePermission(location) = <<>>
                  \/ hasPermission(user, RequirePermission(location)[1])
         /\ (~isLoading /\ user = <<>>) => Shown = "null"
         /\ Shown = "UserManagementPage" => user # <<>> /\ user[1].role = "admin")
  /\ [][last'.op = "ProtectedRoute.useEffect" =>
          /\ ~isLoading
          /\ user = <<>> => location' = "/auth"
          /\ user # <<>> =>
                /\ ~hasPermission(user, RequirePermission(location)[1])
                /\ Shown # Children(location, user)
                /\ location' = "/"]_vars

\* A user with neither capability opened /user-management and was sent to /.
C25_Witness ==
  /\ last.op = "ProtectedRoute.useEffect"
  /\ last.data.location = "/user-management"
  /\ user # <<>>
  /\ user[1].role = "user"
  /\ location = "/"

C30_LoadingEnds == <>[](~isLoading)

====
